---- MODULE Spec2Model ----
(***************************************************************************)
(* K8s-Lens: remediation dispatcher, listing/abort behaviour of the        *)
(* namespace analysers and the three risk-scoring policies.                *)
(***************************************************************************)
EXTENDS Integers, Sequences, FiniteSets, TLC

VARIABLES
    remediators,   \* AutomationEngine.remediators, in registration order
    clusterPods,   \* pods the API server holds, as <<namespace, name>>
    lastCall,      \* observation of the most recent AutoRemediate call
    snapshot,      \* what the API server lists: one item sequence per kind
    listFaults,    \* kinds whose List call fails
    scanOut,       \* values returned by the last ScanNamespace call
    rbacOut,       \* values returned by the last AnalyzeNamespaceRBAC call
    scoreIn,       \* issue and warning lists handed to the risk scorers
    scoreOut,      \* what the risk scorers computed from scoreIn
    canFixLog,     \* answers PodRestartRemediator.CanFix has given so far
    podOut,        \* values returned by the last AnalyzePodSecurity call
    fixIn,         \* arguments of the GenerateFix call
    fixOut,        \* values returned by the GenerateFix call
    recIn,         \* two issue lists handed to a recommendation generator
    recOut,        \* the recommendation lists generated from recIn
    scalers,       \* AutomationEngine.scalers, in registration order
    healers,       \* AutomationEngine.healers, in registration order
    registered,    \* history: the arguments of RegisterRemediator, in call order
    auxCall,       \* observation of the most recent SelfHeal or PredictiveScale call
    calls,         \* AutoRemediate calls in flight, one per concurrent caller
    supportedLog   \* answers GetSupportedIssues has given so far

engineVars == <<scalers, healers, registered, auxCall, calls, supportedLog>>

autoVars == <<remediators, clusterPods, lastCall, canFixLog, engineVars>>

analysisVars == <<snapshot, listFaults, scanOut, rbacOut, podOut>>

scoreVars == <<scoreIn, scoreOut, recIn, recOut>>

fixVars == <<fixIn, fixOut>>

vars == <<remediators, clusterPods, lastCall, snapshot, listFaults, scanOut, rbacOut,
          scoreIn, scoreOut, canFixLog, podOut, fixIn, fixOut, recIn, recOut,
          scalers, healers, registered, auxCall, calls, supportedLog>>

----------------------------------------------------------------------------
(* Bounds *)

MaxRemediators == 2
MaxDuration == 1

----------------------------------------------------------------------------
(* Remediators *)

\* PodRestartRemediator with its static supported-issue list.
PodRestartRemediator ==
    [name |-> "PodRestartRemediator",
     supportedIssues |-> <<"CrashLoopBackOff", "ImagePullBackOff", "ErrImagePull",
                           "RunContainerError", "PodStuckTerminating",
                           "HighRestartCount">>]

\* Two further implementations of the Remediator interface that both
\* declare CrashLoopBackOff, used to exercise registration order.  Their
\* Remediate is the pod restart, the one implementation the repository has.
R1 == [name |-> "R1", supportedIssues |-> <<"CrashLoopBackOff">>]

R2 == [name |-> "R2", supportedIssues |-> <<"CrashLoopBackOff", "OOMKilled">>]

RemediatorPool == {PodRestartRemediator, R1, R2}

DispatchIssueTypes == {"CrashLoopBackOff", "HighRestartCount", "OOMKilled", "UnknownIssue"}

Namespaces == {"default", "staging"}

PodNames == {"web", "db"}

\* Pods owned by a controller; they live in namespace "default".
ManagedPods == {<<"default", "web">>, <<"default", "db">>}

\* Outcomes of the API call other than the server's own answer:
\* "nil" lets the server answer, anything else is a transport/authz failure.
ApiFaults == {"nil", "Forbidden"}

\* Mutation: the loop stops one entry short of the end of the list.
CanFixStopsEarly(r, issueType) ==
    \E i \in 1..(Len(r.supportedIssues) - 1) : r.supportedIssues[i] = issueType

\* closed-set membership test over the remediator's supported list
CanFix(r, issueType) ==
    \E i \in 1..Len(r.supportedIssues) : r.supportedIssues[i] = issueType

\* CoreV1().Pods(namespace).Delete: removes the pod when it exists.
DeletePod(pods, namespace, name, fault) ==
    IF fault # "nil" THEN [err |-> fault, pods |-> pods]
    ELSE IF <<namespace, name>> \in pods
         THEN [err |-> "nil", pods |-> pods \ {<<namespace, name>>}]
         ELSE [err |-> "NotFound", pods |-> pods]

\* Mutation: the failure branch drops the error.
RemediateSwallowsError(pods, resource, namespace, fault, dur) ==
    LET d == DeletePod(pods, namespace, resource, fault) IN
    [result |-> << [Success |-> d.err = "nil", Action |-> "restart", Resource |-> resource,
                 Message |-> IF d.err = "nil"
                             THEN <<"Successfully restarted pod ", resource,
                                    " in namespace ", namespace>>
                             ELSE <<"Failed to delete pod: ", d.err>>,
                 Duration |-> dur] >>,
     err |-> "nil",
     pods |-> d.pods,
     deleteCalls |-> << [namespace |-> namespace, name |-> resource, err |-> d.err] >>]

\* PodRestartRemediator.Remediate: one delete, then a result built from it.
Remediate(pods, resource, namespace, fault, dur) ==
    LET d == DeletePod(pods, namespace, resource, fault) IN
    IF d.err # "nil"
    THEN [result |-> << [Success |-> FALSE, Action |-> "restart", Resource |-> resource,
                      Message |-> <<"Failed to delete pod: ", d.err>>,
                      Duration |-> dur] >>,
          err |-> d.err,
          pods |-> d.pods,
          deleteCalls |-> << [namespace |-> namespace, name |-> resource, err |-> d.err] >>]
    ELSE [result |-> << [Success |-> TRUE, Action |-> "restart", Resource |-> resource,
                      Message |-> <<"Successfully restarted pod ", resource,
                                    " in namespace ", namespace>>,
                      Duration |-> dur] >>,
          err |-> "nil",
          pods |-> d.pods,
          deleteCalls |-> << [namespace |-> namespace, name |-> resource, err |-> d.err] >>]

\* Mutation: the fallback reports an error value.
NoRemediationAsError(resource, issueType) ==
    [result |-> << [Success |-> FALSE, Action |-> "none", Resource |-> resource,
                 Message |-> <<"No automediation available for issue type: ", issueType>>,
                 Duration |-> 0] >>,
     err |-> "NoRemediator"]

\* The value AutoRemediate returns after the loop found no match.  A
\* returned *RemediationResult is a sequence: empty for nil, else one record.
NoRemediation(resource, issueType) ==
    [result |-> << [Success |-> FALSE, Action |-> "none", Resource |-> resource,
                 Message |-> <<"No automediation available for issue type: ", issueType>>,
                 Duration |-> 0] >>,
     err |-> "nil"]

\* Mutation: the scan keeps the last matching remediator.
RECURSIVE AutoRemediateLastMatch(_, _, _, _, _, _, _, _)
AutoRemediateLastMatch(regs, i, pods, issueType, resource, namespace, fault, dur) ==
    IF i > Len(regs)
    THEN [result |-> NoRemediation(resource, issueType).result,
          err |-> NoRemediation(resource, issueType).err,
          pods |-> pods, invoked |-> <<>>, deleteCalls |-> <<>>]
    ELSE LET rest == AutoRemediateLastMatch(regs, i + 1, pods, issueType, resource,
                                            namespace, fault, dur) IN
         IF rest.invoked # <<>> THEN rest
         ELSE IF CanFix(regs[i], issueType)
              THEN LET o == Remediate(pods, resource, namespace, fault, dur) IN
                   [result |-> o.result, err |-> o.err, pods |-> o.pods,
                    invoked |-> <<i>>, deleteCalls |-> o.deleteCalls]
              ELSE rest

\* Mutation: a failed remediation falls through to the next match.
RECURSIVE AutoRemediateRetry(_, _, _, _, _, _, _, _)
AutoRemediateRetry(regs, i, pods, issueType, resource, namespace, fault, dur) ==
    IF i > Len(regs)
    THEN [result |-> NoRemediation(resource, issueType).result,
          err |-> NoRemediation(resource, issueType).err,
          pods |-> pods, invoked |-> <<>>, deleteCalls |-> <<>>]
    ELSE IF CanFix(regs[i], issueType)
         THEN LET o == Remediate(pods, resource, namespace, fault, dur) IN
              IF o.err = "nil"
              THEN [result |-> o.result, err |-> o.err, pods |-> o.pods,
                    invoked |-> <<i>>, deleteCalls |-> o.deleteCalls]
              ELSE LET rest == AutoRemediateRetry(regs, i + 1, o.pods, issueType,
                                                  resource, namespace, fault, dur) IN
                   IF rest.invoked = <<>>
                   THEN [result |-> o.result, err |-> o.err, pods |-> o.pods,
                         invoked |-> <<i>>, deleteCalls |-> o.deleteCalls]
                   ELSE [result |-> rest.result, err |-> rest.err, pods |-> rest.pods,
                         invoked |-> <<i>> \o rest.invoked,
                         deleteCalls |-> o.deleteCalls \o rest.deleteCalls]
         ELSE AutoRemediateRetry(regs, i + 1, pods, issueType, resource,
                                 namespace, fault, dur)

\* The range loop of AutoRemediate from position i: return at the first
\* remediator whose CanFix holds, else fall out of the loop.
RECURSIVE AutoRemediateFrom(_, _, _, _, _, _, _, _)
AutoRemediateFrom(regs, i, pods, issueType, resource, namespace, fault, dur) ==
    IF i > Len(regs)
    THEN [result |-> NoRemediation(resource, issueType).result,
          err |-> NoRemediation(resource, issueType).err,
          pods |-> pods, invoked |-> <<>>, deleteCalls |-> <<>>]
    ELSE IF CanFix(regs[i], issueType)
         THEN LET o == Remediate(pods, resource, namespace, fault, dur) IN
              [result |-> o.result, err |-> o.err, pods |-> o.pods,
               invoked |-> <<i>>, deleteCalls |-> o.deleteCalls]
         ELSE AutoRemediateFrom(regs, i + 1, pods, issueType, resource,
                                namespace, fault, dur)

NoCall ==
    [called |-> FALSE, issueType |-> "", resource |-> "", namespace |-> "",
     registry |-> <<>>, podsBefore |-> {}, podsAfter |-> {}, result |-> <<>>, err |-> "nil",
     invoked |-> <<>>, deleteCalls |-> <<>>]

\* nothing observed yet of SelfHeal and of PredictiveScale
NoAuxCall ==
    [op \in {"SelfHeal", "PredictiveScale"} |->
        [called |-> FALSE, resource |-> "", namespace |-> "", result |-> <<>>,
         err |-> <<>>, invoked |-> <<>>]]

----------------------------------------------------------------------------
(* Automation engine: state machine *)

\* NewAutomationEngine: empty registry; the cluster runs its managed pods.
AutoInit ==
    /\ remediators = <<>>
    /\ clusterPods = ManagedPods
    /\ lastCall = NoCall
    /\ canFixLog = {}
    /\ scalers = <<>>
    /\ healers = <<>>
    /\ registered = <<>>
    /\ auxCall = NoAuxCall
    /\ calls = <<>>
    /\ supportedLog = {}

\* Mutation: a remediator that is already registered is not added again.
AppendRemediatorOnce(regs, r) ==
    IF \E i \in 1..Len(regs) : regs[i] = r THEN regs ELSE Append(regs, r)

\* a.remediators = append(a.remediators, remediator)
AppendRemediator(regs, r) == Append(regs, r)

RegisterRemediator(r) ==
    /\ Len(remediators) < MaxRemediators
    /\ remediators' = AppendRemediator(remediators, r)
    /\ registered' = registered \o <<r>>
    /\ UNCHANGED <<clusterPods, lastCall, canFixLog, scalers, healers, auxCall, calls,
                   supportedLog, analysisVars, scoreVars, fixVars>>

AutoRemediate(issueType, resource, namespace, fault, dur) ==
    LET o == AutoRemediateFrom(remediators, 1, clusterPods, issueType, resource,
                               namespace, fault, dur) IN
    /\ clusterPods' = o.pods
    /\ lastCall' = [called |-> TRUE, issueType |-> issueType, resource |-> resource,
                    namespace |-> namespace, registry |-> remediators,
                    podsBefore |-> clusterPods, podsAfter |-> o.pods, result |-> o.result, err |-> o.err,
                    invoked |-> o.invoked, deleteCalls |-> o.deleteCalls]
    /\ UNCHANGED <<remediators, canFixLog, engineVars, analysisVars, scoreVars, fixVars>>

\* The owning controller recreates a deleted pod.
ControllerRecreate(p) ==
    /\ p \notin clusterPods
    /\ clusterPods' = clusterPods \cup {p}
    /\ UNCHANGED <<remediators, lastCall, canFixLog, engineVars, analysisVars, scoreVars,
                   fixVars>>

\* strings handed to CanFix directly: the supported names, other issue
\* names, and supported names in another spelling
ProbeIssueTypes ==
    {"CrashLoopBackOff", "ImagePullBackOff", "ErrImagePull", "RunContainerError",
     "PodStuckTerminating", "HighRestartCount", "UnknownIssue", "OOMKilled",
     "crashloopbackoff", "CRASHLOOPBACKOFF", "High restart count", ""}

\* a direct call of PodRestartRemediator.CanFix, as the unit test makes
CanFixProbe(issueType) ==
    /\ canFixLog' = canFixLog \cup
          {[issueType |-> issueType, answer |-> CanFix(PodRestartRemediator, issueType)]}
    /\ UNCHANGED <<remediators, clusterPods, lastCall, engineVars, analysisVars, scoreVars,
                   fixVars>>

\* Mutation: the returned list has lost its last name.
GetSupportedIssuesShort ==
    <<"CrashLoopBackOff", "ImagePullBackOff", "ErrImagePull", "RunContainerError",
      "PodStuckTerminating">>

\* PodRestartRemediator.GetSupportedIssues: a slice literal of its own
GetSupportedIssues ==
    <<"CrashLoopBackOff", "ImagePullBackOff", "ErrImagePull", "RunContainerError",
      "PodStuckTerminating", "HighRestartCount">>

\* a direct call of PodRestartRemediator.GetSupportedIssues
GetSupportedIssuesProbe ==
    /\ supportedLog' = supportedLog \cup {GetSupportedIssues}
    /\ UNCHANGED <<remediators, clusterPods, lastCall, canFixLog, scalers, healers,
                   registered, auxCall, calls, analysisVars, scoreVars, fixVars>>

AutoNext ==
    \/ \E r \in RemediatorPool : RegisterRemediator(r)
    \/ \E t \in DispatchIssueTypes, res \in PodNames, ns \in Namespaces,
          f \in ApiFaults, d \in {0, MaxDuration} :
          AutoRemediate(t, res, ns, f, d)
    \/ \E p \in ManagedPods : ControllerRecreate(p)

----------------------------------------------------------------------------
(* Concurrent AutoRemediate calls, one step per statement *)

MaxCallers == 2

Callers == 1..MaxCallers

\* the pods the callers may name; each caller names another one
CallerTargets ==
    << <<"default", "web">>, <<"staging", "web">>, <<"default", "db">>,
       <<"staging", "db">> >>

\* registries left behind by a finished registration phase
StableRegistries == {<<>>, <<R1, R2>>, <<R2, PodRestartRemediator>>}

CallerIssueTypes == {"CrashLoopBackOff", "OOMKilled", "UnknownIssue"}

\* A call that has not started: its arguments and the API outcome it will meet.
NewCall(issueType, target, fault) ==
    [pc |-> "start", issueType |-> issueType, resource |-> target[2],
     namespace |-> target[1], fault |-> fault, dur |-> 0, view |-> <<>>, i |-> 0,
     result |-> <<>>, err |-> "nil", invoked |-> <<>>]

ConcurrentInit ==
    /\ remediators \in StableRegistries
    /\ registered = remediators
    /\ clusterPods = ManagedPods
    /\ lastCall = NoCall
    /\ canFixLog = {}
    /\ scalers = <<>>
    /\ healers = <<>>
    /\ auxCall = NoAuxCall
    /\ supportedLog = {}
    /\ \E types \in [Callers -> CallerIssueTypes],
          faults \in [Callers -> ApiFaults],
          pick \in [Callers -> 1..Len(CallerTargets)] :
          /\ \A c, d \in Callers : c < d => pick[c] < pick[d]
          /\ calls = [c \in Callers |->
                         NewCall(types[c], CallerTargets[pick[c]], faults[c])]

\* `range a.remediators` evaluates the slice once, when the loop starts
RangeStart(c) ==
    /\ calls[c].pc = "start"
    /\ calls' = [calls EXCEPT ![c].pc = "loop", ![c].view = remediators, ![c].i = 1]
    /\ UNCHANGED <<remediators, clusterPods, lastCall, canFixLog, scalers, healers,
                   registered, auxCall, supportedLog, analysisVars, scoreVars, fixVars>>

\* Mutation: the loop position is one counter that all callers advance.
RangeStepSharedCursor(cs, c) ==
    IF cs[c].i > Len(cs[c].view)
    THEN [cs EXCEPT ![c].pc = "done",
                    ![c].result = NoRemediation(cs[c].resource, cs[c].issueType).result,
                    ![c].err = NoRemediation(cs[c].resource, cs[c].issueType).err]
    ELSE IF CanFix(cs[c].view[cs[c].i], cs[c].issueType)
         THEN [cs EXCEPT ![c].pc = "remediate", ![c].invoked = <<cs[c].i>>]
         ELSE [d \in DOMAIN cs |->
                  IF cs[d].pc = "loop" THEN [cs[d] EXCEPT !.i = cs[d].i + 1] ELSE cs[d]]

\* One round of the range loop of caller c: leave the loop with the
\* fallback result, or select the remediator at the position, or move on.
RangeStep(cs, c) ==
    IF cs[c].i > Len(cs[c].view)
    THEN [cs EXCEPT ![c].pc = "done",
                    ![c].result = NoRemediation(cs[c].resource, cs[c].issueType).result,
                    ![c].err = NoRemediation(cs[c].resource, cs[c].issueType).err]
    ELSE IF CanFix(cs[c].view[cs[c].i], cs[c].issueType)
         THEN [cs EXCEPT ![c].pc = "remediate", ![c].invoked = <<cs[c].i>>]
         ELSE [cs EXCEPT ![c].i = cs[c].i + 1]

RangeLoop(c) ==
    /\ calls[c].pc = "loop"
    /\ calls' = RangeStep(calls, c)
    /\ UNCHANGED <<remediators, clusterPods, lastCall, canFixLog, scalers, healers,
                   registered, auxCall, supportedLog, analysisVars, scoreVars, fixVars>>

\* return remediator.Remediate(ctx, resource, namespace)
RemediateCall(c) ==
    LET o == Remediate(clusterPods, calls[c].resource, calls[c].namespace,
                       calls[c].fault, calls[c].dur) IN
    /\ calls[c].pc = "remediate"
    /\ clusterPods' = o.pods
    /\ calls' = [calls EXCEPT ![c].pc = "done", ![c].result = o.result,
                              ![c].err = o.err]
    /\ UNCHANGED <<remediators, lastCall, canFixLog, scalers, healers, registered,
                   auxCall, supportedLog, analysisVars, scoreVars, fixVars>>

ConcurrentNext ==
    \/ \E c \in Callers : RangeStart(c)
    \/ \E c \in Callers : RangeLoop(c)
    \/ \E c \in Callers : RemediateCall(c)

----------------------------------------------------------------------------
(* Cluster snapshot and the List calls *)

\* A Go pointer is a sequence: <<>> for nil, else one element.
Nil == <<>>

Ptr(x) == <<x>>

----------------------------------------------------------------------------
(* Scalers, healers and the two dispatchers over them *)

MaxAuxiliaries == 1

\* The repository has no implementation of Scaler or Healer.  An
\* implementation is the set of resources it accepts; what its
\* PredictScale or Heal returns is its own business, so the call returns
\* any of the outcomes the signature allows.
WebScaler == [name |-> "WebScaler", accepts |-> {"web"}]

WebHealer == [name |-> "WebHealer", accepts |-> {"web"}]

CanScale(scaler, resource) == resource \in scaler.accepts

CanHeal(healer, resource) == resource \in healer.accepts

PredictScaleOutcomes(deployment, namespace) ==
    {[result |-> Ptr([Resource |-> deployment, Namespace |-> namespace]), err |-> Nil],
     [result |-> Nil, err |-> <<"prediction failed">>]}

HealOutcomes(resource, namespace) ==
    {[result |-> Ptr([Success |-> TRUE, Action |-> "heal", Resource |-> resource,
                      Message |-> <<"healed">>, Duration |-> 0]), err |-> Nil],
     [result |-> Nil, err |-> <<"heal failed">>]}

\* position of the first entry of a list that accepts the resource, as a
\* sequence of at most one index
FirstAccepting(list, resource) ==
    LET hits == {i \in 1..Len(list) : resource \in list[i].accepts} IN
    IF hits = {} THEN <<>> ELSE <<CHOOSE i \in hits : \A j \in hits : i <= j>>

NoSelfHealing(resource) ==
    [result |-> Ptr([Success |-> FALSE, Action |-> "none", Resource |-> resource,
                     Message |-> <<"No self-healing available for resource: ", resource>>,
                     Duration |-> 0]),
     err |-> Nil]

NoPredictiveScaling(deployment) ==
    [result |-> Nil, err |-> <<"no predictive scaling available for ", deployment>>]

RegisterScaler(scaler) ==
    /\ Len(scalers) < MaxAuxiliaries
    /\ scalers' = Append(scalers, scaler)
    /\ UNCHANGED <<remediators, clusterPods, lastCall, canFixLog, healers, registered,
                   auxCall, calls, supportedLog, analysisVars, scoreVars, fixVars>>

RegisterHealer(healer) ==
    /\ Len(healers) < MaxAuxiliaries
    /\ healers' = Append(healers, healer)
    /\ UNCHANGED <<remediators, clusterPods, lastCall, canFixLog, scalers, registered,
                   auxCall, calls, supportedLog, analysisVars, scoreVars, fixVars>>

PredictiveScale(deployment, namespace, outcome) ==
    LET hit == FirstAccepting(scalers, deployment)
        o == IF hit = <<>> THEN NoPredictiveScaling(deployment) ELSE outcome IN
    /\ outcome \in PredictScaleOutcomes(deployment, namespace)
    /\ auxCall' = [auxCall EXCEPT !.PredictiveScale =
                      [called |-> TRUE, resource |-> deployment, namespace |-> namespace,
                       result |-> o.result, err |-> o.err, invoked |-> hit]]
    /\ UNCHANGED <<remediators, clusterPods, lastCall, canFixLog, scalers, healers,
                   registered, calls, supportedLog, analysisVars, scoreVars, fixVars>>

SelfHeal(resource, namespace, outcome) ==
    LET hit == FirstAccepting(healers, resource)
        o == IF hit = <<>> THEN NoSelfHealing(resource) ELSE outcome IN
    /\ outcome \in HealOutcomes(resource, namespace)
    /\ auxCall' = [auxCall EXCEPT !.SelfHeal =
                      [called |-> TRUE, resource |-> resource, namespace |-> namespace,
                       result |-> o.result, err |-> o.err, invoked |-> hit]]
    /\ UNCHANGED <<remediators, clusterPods, lastCall, canFixLog, scalers, healers,
                   registered, calls, supportedLog, analysisVars, scoreVars, fixVars>>

\* the engine's operations called one after the other
RegistryNext ==
    \/ \E r \in RemediatorPool : RegisterRemediator(r)
    \/ RegisterScaler(WebScaler)
    \/ RegisterHealer(WebHealer)
    \/ \E t \in {"CrashLoopBackOff", "UnknownIssue"} :
          AutoRemediate(t, "web", "default", "nil", 0)
    \/ \E res \in PodNames : \E o \in HealOutcomes(res, "default") :
          SelfHeal(res, "default", o)
    \/ \E res \in PodNames : \E o \in PredictScaleOutcomes(res, "default") :
          PredictiveScale(res, "default", o)

----------------------------------------------------------------------------
(* The List calls *)

\* A client List call: fails when the kind is in faults, else the items.
List(snap, faults, kind) ==
    IF kind \in faults
    THEN [err |-> <<"list of ", kind, " failed">>, items |-> <<>>]
    ELSE [err |-> Nil, items |-> snap[kind]]

\* concatenation of a sequence of sequences: what a loop that appends the
\* items of each round leaves behind
RECURSIVE Flatten(_)
Flatten(ss) == IF ss = <<>> THEN <<>> ELSE Head(ss) \o Flatten(Tail(ss))

ScanNamespaceName == "team-a"

\* corev1.Container with its SecurityContext fields the scanners read
HardenedContainer ==
    [name |-> "app",
     securityContext |-> Ptr([privileged |-> Ptr(FALSE), runAsUser |-> Ptr(1000),
                              readOnlyRootFilesystem |-> Ptr(TRUE),
                              allowPrivilegeEscalation |-> Ptr(FALSE),
                              capabilities |-> Nil])]

BareContainer == [name |-> "sidecar", securityContext |-> Nil]

PrivilegedContainer ==
    [name |-> "agent",
     securityContext |-> Ptr([privileged |-> Ptr(TRUE), runAsUser |-> Ptr(0),
                              readOnlyRootFilesystem |-> Nil,
                              allowPrivilegeEscalation |-> Nil,
                              capabilities |-> Ptr([add |-> <<"SYS_ADMIN", "CHOWN",
                                                              "CAP_SYS_ADMIN">>])])]

NetRawContainer ==
    [name |-> "probe",
     securityContext |-> Ptr([privileged |-> Nil, runAsUser |-> Nil,
                              readOnlyRootFilesystem |-> Ptr(FALSE),
                              allowPrivilegeEscalation |-> Ptr(TRUE),
                              capabilities |-> Ptr([add |-> <<"NET_RAW">>])])]

\* corev1.Pod
HardenedPod ==
    [name |-> "web",
     securityContext |-> Ptr([runAsNonRoot |-> Ptr(TRUE),
                              seccompProfile |-> Ptr("RuntimeDefault")]),
     containers |-> <<HardenedContainer>>]

BarePod == [name |-> "db", securityContext |-> Nil, containers |-> <<BareContainer>>]

PrivilegedPod ==
    [name |-> "node-agent",
     securityContext |-> Ptr([runAsNonRoot |-> Ptr(FALSE), seccompProfile |-> Nil]),
     containers |-> <<PrivilegedContainer>>]

MixedPod ==
    [name |-> "batch",
     securityContext |-> Ptr([runAsNonRoot |-> Nil, seccompProfile |-> Ptr("Unconfined")]),
     containers |-> <<BareContainer, NetRawContainer, HardenedContainer>>]

PodListings ==
    {<<>>, <<HardenedPod>>, <<BarePod>>, <<PrivilegedPod, HardenedPod>>,
     <<MixedPod, PrivilegedPod>>, <<BarePod, MixedPod, BarePod>>}

\* corev1.Service
ClusterIPService == [name |-> "api", type |-> "ClusterIP", externalIPs |-> <<>>]

ExternalIPService == [name |-> "edge", type |-> "ClusterIP", externalIPs |-> <<"203.0.113.7">>]

LoadBalancerService == [name |-> "lb", type |-> "LoadBalancer", externalIPs |-> <<"203.0.113.8">>]

ServiceListings ==
    {<<>>, <<ClusterIPService>>, <<ExternalIPService, LoadBalancerService>>}

NetworkPolicyListings == {<<>>, <<[name |-> "deny-all"]>>}

ScanKinds == {"Pods", "Services", "NetworkPolicies"}

----------------------------------------------------------------------------
(* SecurityScanner *)

SecurityIssue(type, severity, resource, description, recommendation) ==
    [Type |-> type, Severity |-> severity, Resource |-> resource,
     Description |-> description, Recommendation |-> recommendation]

\* closed list of the scan path (no CAP_ prefixed names)
isDangerousCapability(cap) ==
    cap \in {"SYS_ADMIN", "SYS_PTRACE", "SYS_MODULE", "SYS_RAWIO",
             "NET_ADMIN", "NET_RAW", "IPC_LOCK", "DAC_READ_SEARCH"}

\* the pod-level checks of scanPodSecurity
ScanPodContext(pod) ==
    IF pod.securityContext = Nil
    THEN << SecurityIssue("MissingPodSecurityContext", "Medium", <<pod.name>>,
                          <<"Pod does not have a security context defined">>,
                          "Define pod-level security context with reasonable defaults") >>
    ELSE LET sc == pod.securityContext[1] IN
         (IF sc.runAsNonRoot = Nil \/ ~sc.runAsNonRoot[1]
          THEN << SecurityIssue("RunAsRootAllowed", "Medium", <<pod.name>>,
                                <<"Pod can run as root user">>,
                                "Set runAsNonRoot to true in security context") >>
          ELSE <<>>)
         \o
         (IF sc.seccompProfile = Nil
          THEN << SecurityIssue("MissingSeccompProfile", "Low", <<pod.name>>,
                                <<"Pod does not have seccomp profile defined">>,
                                "Define seccomp profile for enhanced security") >>
          ELSE <<>>)

\* the loop over Capabilities.Add
RECURSIVE ScanCapabilities(_, _, _)
ScanCapabilities(pod, container, caps) ==
    IF caps = <<>> THEN <<>>
    ELSE (IF isDangerousCapability(Head(caps))
          THEN << SecurityIssue("DangerousCapability", "High",
                                <<pod.name, "/", container.name>>,
                                <<"Container has dangerous capability: ", Head(caps)>>,
                                "Remove dangerous capabilities") >>
          ELSE <<>>)
         \o ScanCapabilities(pod, container, Tail(caps))

\* the body of the container loop of scanPodSecurity
ScanContainer(pod, container) ==
    IF container.securityContext = Nil
    THEN << SecurityIssue("MissingContainerSecurityContext", "Medium",
                          <<pod.name, "/", container.name>>,
                          <<"Container does not have security context defined">>,
                          "Define container security context with least privilege") >>
    ELSE LET sc == container.securityContext[1] IN
         (IF sc.privileged # Nil /\ sc.privileged[1]
          THEN << SecurityIssue("PrivilegedContainer", "High",
                                <<pod.name, "/", container.name>>,
                                <<"Container is running in privileged mode">>,
                                "Avoid running containers in privileged mode") >>
          ELSE <<>>)
         \o
         (IF sc.runAsUser # Nil /\ sc.runAsUser[1] = 0
          THEN << SecurityIssue("RunAsRoot", "Medium",
                                <<pod.name, "/", container.name>>,
                                <<"Container is running as root user">>,
                                "Run containers as non-root user") >>
          ELSE <<>>)
         \o
         (IF sc.readOnlyRootFilesystem = Nil \/ ~sc.readOnlyRootFilesystem[1]
          THEN << SecurityIssue("WritableRootFilesystem", "Low",
                                <<pod.name, "/", container.name>>,
                                <<"Container has writable root filesystem">>,
                                "Set readOnlyRootFilesystem to true") >>
          ELSE <<>>)
         \o
         (IF sc.capabilities # Nil
          THEN ScanCapabilities(pod, container, sc.capabilities[1].add)
          ELSE <<>>)

\* Mutation: a container without a security context ends the loop.
RECURSIVE ScanContainersBreak(_, _)
ScanContainersBreak(pod, containers) ==
    IF containers = <<>> THEN <<>>
    ELSE IF Head(containers).securityContext = Nil
         THEN ScanContainer(pod, Head(containers))
         ELSE ScanContainer(pod, Head(containers))
              \o ScanContainersBreak(pod, Tail(containers))

RECURSIVE ScanContainers(_, _)
ScanContainers(pod, containers) ==
    IF containers = <<>> THEN <<>>
    ELSE ScanContainer(pod, Head(containers)) \o ScanContainers(pod, Tail(containers))

\* scanPodSecurity: the issues it appends to the report, pod by pod
RECURSIVE scanPodSecurity(_, _)
scanPodSecurity(issues, pods) ==
    IF pods = <<>> THEN issues
    ELSE scanPodSecurity(issues \o ScanPodContext(Head(pods))
                                \o ScanContainers(Head(pods), Head(pods).containers),
                         Tail(pods))

RECURSIVE scanServiceSecurity(_, _)
scanServiceSecurity(issues, services) ==
    IF services = <<>> THEN issues
    ELSE LET service == Head(services) IN
         scanServiceSecurity(
            issues
            \o (IF Len(service.externalIPs) > 0
                THEN << SecurityIssue("ServiceWithExternalIP", "Medium", <<service.name>>,
                                      <<"Service has external IPs configured">>,
                                      "Review external IP usage for security implications") >>
                ELSE <<>>)
            \o (IF service.type = "LoadBalancer"
                THEN << SecurityIssue("LoadBalancerService", "Low", <<service.name>>,
                                      <<"Service uses LoadBalancer type">>,
                                      "Consider using Ingress instead of LoadBalancer for external access") >>
                ELSE <<>>),
            Tail(services))

\* scanNetworkPolicies: lists the policies itself; a failed listing returns
\* without touching the report.
scanNetworkPolicies(issues, snap, faults, namespace) ==
    LET networkPolicies == List(snap, faults, "NetworkPolicies") IN
    IF networkPolicies.err # Nil THEN issues
    ELSE IF Len(networkPolicies.items) = 0
         THEN Append(issues,
                     SecurityIssue("NoNetworkPolicies", "Medium", <<namespace>>,
                                   <<"Namespace has no network policies defined">>,
                                   "Implement network policies for network segmentation"))
         ELSE issues

\* the subtraction loop of calculateComplianceScore: baseScore after the
\* first n issues
RECURSIVE ComplianceBaseScore(_, _)
ComplianceBaseScore(issues, n) ==
    IF n = 0 THEN 100
    ELSE ComplianceBaseScore(issues, n - 1)
         - (CASE issues[n].Severity = "Critical" -> 10
              [] issues[n].Severity = "High" -> 7
              [] issues[n].Severity = "Medium" -> 4
              [] issues[n].Severity = "Low" -> 1
              [] OTHER -> 0)

\* Mutation: the floor at zero is missing.
calculateComplianceScoreUnfloored(issues) ==
    ComplianceBaseScore(issues, Len(issues))

calculateComplianceScore(issues) ==
    LET baseScore == ComplianceBaseScore(issues, Len(issues)) IN
    IF baseScore < 0 THEN 0 ELSE baseScore

\* Mutation: the Low tier starts at 80, as in the per-pod scorer.
calculateRiskLevelFromScoreFrom80(score) ==
    IF score >= 80 THEN "Low"
    ELSE IF score >= 70 THEN "Medium"
    ELSE IF score >= 50 THEN "High"
    ELSE "Critical"

calculateRiskLevelFromScore(score) ==
    IF score >= 90 THEN "Low"
    ELSE IF score >= 70 THEN "Medium"
    ELSE IF score >= 50 THEN "High"
    ELSE "Critical"

HasIssueType(issues, types) == \E i \in 1..Len(issues) : issues[i].Type \in types

generateSecurityRecommendations(issues) ==
    LET hasPrivilegedContainers == HasIssueType(issues, {"PrivilegedContainer"})
        hasRootContainers == HasIssueType(issues, {"RunAsRoot", "RunAsRootAllowed"})
        hasMissingSecurityContexts ==
            HasIssueType(issues, {"MissingPodSecurityContext",
                                  "MissingContainerSecurityContext"})
        recommendations ==
            (IF hasPrivilegedContainers
             THEN <<"Eliminate all privileged containers - they pose significant security risks">>
             ELSE <<>>)
            \o (IF hasRootContainers
                THEN <<"Run containers as non-root users to minimize attack surface">>
                ELSE <<>>)
            \o (IF hasMissingSecurityContexts
                THEN <<"Define security contexts for all pods and containers">>
                ELSE <<>>)
    IN IF Len(recommendations) = 0
       THEN <<"Security posture is good - maintain current security practices">>
       ELSE recommendations

\* ScanNamespace from "Perform security scans" on: rule evaluation, score,
\* risk level and recommendations of the report.
ScanEvaluate(snap, faults, namespace, pods, services) ==
    LET issues == scanNetworkPolicies(
                      scanServiceSecurity(scanPodSecurity(<<>>, pods), services),
                      snap, faults, namespace)
        score == calculateComplianceScore(issues)
    IN [report |-> Ptr([Namespace |-> namespace,
                        TotalPods |-> Len(pods),
                        TotalServices |-> Len(services),
                        SecurityIssues |-> issues,
                        ComplianceScore |-> score,
                        RiskLevel |-> calculateRiskLevelFromScore(score),
                        Recommendations |-> generateSecurityRecommendations(issues)]),
        err |-> Nil,
        listed |-> <<"Pods", "Services", "NetworkPolicies">>]

\* Mutation: the Services listing error is not checked.
ScanNamespaceUncheckedServices(snap, faults, namespace) ==
    LET pods == List(snap, faults, "Pods") IN
    IF pods.err # Nil
    THEN [report |-> Nil, err |-> <<"failed to list pods: ">> \o pods.err,
          listed |-> <<"Pods">>]
    ELSE LET services == List(snap, faults, "Services") IN
         ScanEvaluate(snap, faults, namespace, pods.items, services.items)

\* ScanNamespace: the values it returns and the List calls it made
ScanNamespaceResult(snap, faults, namespace) ==
    LET pods == List(snap, faults, "Pods") IN
    IF pods.err # Nil
    THEN [report |-> Nil, err |-> <<"failed to list pods: ">> \o pods.err,
          listed |-> <<"Pods">>]
    ELSE LET services == List(snap, faults, "Services") IN
         IF services.err # Nil
         THEN [report |-> Nil, err |-> <<"failed to list services: ">> \o services.err,
               listed |-> <<"Pods", "Services">>]
         ELSE ScanEvaluate(snap, faults, namespace, pods.items, services.items)

\* what a call leaves behind: the values it returned, the List calls it
\* made, those of them that failed, and whether it repeated an earlier call
NotRun ==
    [done |-> FALSE, rerun |-> FALSE, report |-> Nil, err |-> Nil, listed |-> <<>>,
     failed |-> {}]

PodNotRun ==
    [done |-> FALSE, rerun |-> FALSE, podName |-> "", report |-> Nil, err |-> Nil,
     failed |-> {}]

\* the kinds among those listed whose List call failed
FailedKinds(listed, faults) == {listed[i] : i \in 1..Len(listed)} \cap faults

EmptySnapshot ==
    [Pods |-> <<>>, Services |-> <<>>, NetworkPolicies |-> <<>>,
     ClusterRoles |-> <<>>, Roles |-> <<>>, ClusterRoleBindings |-> <<>>,
     RoleBindings |-> <<>>, ServiceAccounts |-> <<>>]

\* no analysis in progress: an empty cluster and no analyser called
AnalysisIdle ==
    /\ snapshot = EmptySnapshot
    /\ listFaults = {}
    /\ scanOut = NotRun
    /\ rbacOut = NotRun
    /\ podOut = PodNotRun

\* a namespace holding pods, services and network policies; any of the
\* scanner's List calls may fail
ScanInit ==
    /\ \E pods \in PodListings, services \in ServiceListings,
          policies \in NetworkPolicyListings :
          snapshot = [EmptySnapshot EXCEPT !.Pods = pods, !.Services = services,
                                           !.NetworkPolicies = policies]
    /\ listFaults \in SUBSET ScanKinds
    /\ scanOut = NotRun
    /\ rbacOut = NotRun
    /\ podOut = PodNotRun

\* Mutation: the scanner keeps its report between calls and appends the
\* issues of a call to those of the call before.
ScanNamespaceKeepsIssues(namespace) ==
    LET o == ScanNamespaceResult(snapshot, listFaults, namespace)
        kept == IF scanOut.report = Nil THEN <<>> ELSE scanOut.report[1].SecurityIssues
    IN
    /\ scanOut' = [done |-> TRUE, rerun |-> scanOut.done,
                   report |-> IF o.report = Nil THEN Nil
                              ELSE Ptr([o.report[1] EXCEPT !.SecurityIssues = kept \o @]),
                   err |-> o.err, listed |-> o.listed,
                   failed |-> FailedKinds(o.listed, listFaults)]
    /\ UNCHANGED <<snapshot, listFaults, rbacOut, podOut, autoVars, scoreVars, fixVars>>

ScanNamespace(namespace) ==
    LET o == ScanNamespaceResult(snapshot, listFaults, namespace) IN
    /\ scanOut' = [done |-> TRUE, rerun |-> scanOut.done, report |-> o.report,
                   err |-> o.err, listed |-> o.listed,
                   failed |-> FailedKinds(o.listed, listFaults)]
    /\ UNCHANGED <<snapshot, listFaults, rbacOut, podOut, autoVars, scoreVars, fixVars>>

----------------------------------------------------------------------------
(* RBAC objects *)

\* Names that the analyser searches with strings.Contains are character
\* sequences; names it only compares or prints are strings.
Chars_default == <<"d", "e", "f", "a", "u", "l", "t">>

Chars_app_default == <<"a", "p", "p", "-", "d", "e", "f", "a", "u", "l", "t">>

Chars_alice == <<"a", "l", "i", "c", "e">>

Chars_admin == <<"a", "d", "m", "i", "n">>

Chars_ns_admin_ro == <<"n", "s", "-", "a", "d", "m", "i", "n", "-", "r", "o">>

Chars_view == <<"v", "i", "e", "w">>

\* strings.Contains
Contains(s, substr) ==
    \E i \in 0..(Len(s) - Len(substr)) : SubSeq(s, i + 1, i + Len(substr)) = substr

\* rbacv1.ClusterRole
WildcardClusterRole ==
    [name |-> "ops",
     rules |-> << [verbs |-> <<"get", "*">>, resources |-> <<"*">>] >>]

SecretsClusterRole ==
    [name |-> "deployer",
     rules |-> << [verbs |-> <<"get", "list">>, resources |-> <<"pods">>],
                  [verbs |-> <<"create", "delete">>,
                   resources |-> <<"secrets", "pods/exec">>] >>]

ReaderClusterRole ==
    [name |-> "reader",
     rules |-> << [verbs |-> <<"get">>, resources |-> <<"secrets", "pods/exec">>] >>]

ClusterRoleListings ==
    {<<>>, <<ReaderClusterRole>>, <<WildcardClusterRole>>,
     <<SecretsClusterRole, WildcardClusterRole>>}

\* rbacv1.Role
WildcardRole == [name |-> "dev", rules |-> << [verbs |-> <<"*">>, resources |-> <<"pods">>] >>]

ReaderRole == [name |-> "viewer", rules |-> << [verbs |-> <<"get">>, resources |-> <<"*">>] >>]

RoleListings == {<<>>, <<ReaderRole>>, <<ReaderRole, WildcardRole>>}

\* rbacv1.ClusterRoleBinding
ClusterAdminBinding ==
    [name |-> "root-binding", roleRef |-> "cluster-admin",
     subjects |-> << [kind |-> "User", name |-> Chars_alice] >>]

DefaultAccountBinding ==
    [name |-> "ci-binding", roleRef |-> "edit",
     subjects |-> << [kind |-> "ServiceAccount", name |-> Chars_app_default],
                     [kind |-> "User", name |-> Chars_default],
                     [kind |-> "ServiceAccount", name |-> Chars_alice] >>]

AdminDefaultBinding ==
    [name |-> "legacy-binding", roleRef |-> "cluster-admin",
     subjects |-> << [kind |-> "ServiceAccount", name |-> Chars_default] >>]

ViewBinding ==
    [name |-> "view-binding", roleRef |-> "view",
     subjects |-> << [kind |-> "User", name |-> Chars_alice] >>]

ClusterRoleBindingListings ==
    {<<>>, <<ViewBinding>>, <<DefaultAccountBinding>>,
     <<ViewBinding, ClusterAdminBinding>>, <<AdminDefaultBinding, DefaultAccountBinding>>}

\* rbacv1.RoleBinding
AdminRoleBinding == [name |-> "owners", roleRef |-> Chars_admin]

NsAdminRoleBinding == [name |-> "auditors", roleRef |-> Chars_ns_admin_ro]

ViewRoleBinding == [name |-> "guests", roleRef |-> Chars_view]

RoleBindingListings ==
    {<<>>, <<ViewRoleBinding>>, <<NsAdminRoleBinding, ViewRoleBinding, AdminRoleBinding>>}

\* corev1.ServiceAccount
PlainServiceAccount == [name |-> "default", secrets |-> <<>>]

TokenServiceAccount == [name |-> "builder", secrets |-> <<"builder-token">>]

ServiceAccountListings ==
    {<<>>, <<TokenServiceAccount>>, <<PlainServiceAccount, TokenServiceAccount>>}

RBACKinds == {"ClusterRoles", "Roles", "ClusterRoleBindings", "RoleBindings",
              "ServiceAccounts"}

----------------------------------------------------------------------------
(* RBACAnalyzer *)

contains(slice, item) == \E i \in 1..Len(slice) : slice[i] = item

containsAny(slice, items) == \E i \in 1..Len(items) : contains(slice, items[i])

\* the body of the rule loop of analyzeClusterRoles
ClusterRoleRuleIssues(clusterRole, rule) ==
    Flatten([i \in 1..Len(rule.verbs) |->
        IF rule.verbs[i] = "*"
        THEN << SecurityIssue("WildcardVerb", "High", <<clusterRole.name>>,
                              <<"ClusterRole '", clusterRole.name, "' uses wildcard verb '*'">>,
                              "Replace wildcard verbs with specific actions") >>
        ELSE <<>>])
    \o
    Flatten([i \in 1..Len(rule.resources) |->
        IF rule.resources[i] = "*"
        THEN << SecurityIssue("WildcardResource", "High", <<clusterRole.name>>,
                              <<"ClusterRole '", clusterRole.name,
                                "' uses wildcard resource '*'">>,
                              "Replace wildcard resources with specific resource types") >>
        ELSE <<>>])
    \o
    Flatten([i \in 1..Len(rule.resources) |->
        (IF rule.resources[i] = "secrets"
            /\ containsAny(rule.verbs, <<"create", "update", "patch", "delete">>)
         THEN << SecurityIssue("DangerousSecretPermission", "High", <<clusterRole.name>>,
                               <<"ClusterRole '", clusterRole.name,
                                 "' has dangerous permissions on secrets">>,
                               "Review and restrict secret permissions") >>
         ELSE <<>>)
        \o
        (IF rule.resources[i] = "pods/exec" /\ contains(rule.verbs, "create")
         THEN << SecurityIssue("PodExecPermission", "Medium", <<clusterRole.name>>,
                               <<"ClusterRole '", clusterRole.name,
                                 "' can execute commands in pods">>,
                               "Restrict pod exec permissions to trusted users") >>
         ELSE <<>>)])

analyzeClusterRoles(issues, clusterRoles) ==
    issues \o
    Flatten([c \in 1..Len(clusterRoles) |->
        Flatten([r \in 1..Len(clusterRoles[c].rules) |->
            ClusterRoleRuleIssues(clusterRoles[c], clusterRoles[c].rules[r])])])

\* Mutation: the Role issues are put in front of the issues found so far.
analyzeRolesInFront(issues, namespace, roles) ==
    Flatten([c \in 1..Len(roles) |->
        Flatten([r \in 1..Len(roles[c].rules) |->
            Flatten([v \in 1..Len(roles[c].rules[r].verbs) |->
                IF roles[c].rules[r].verbs[v] = "*"
                THEN << SecurityIssue("WildcardVerbInRole", "Medium",
                                      <<namespace, "/", roles[c].name>>,
                                      <<"Role '", roles[c].name, "' in namespace '",
                                        namespace, "' uses wildcard verb '*'">>,
                                      "Replace wildcard verbs with specific actions") >>
                ELSE <<>>])])])
    \o issues

\* Mutation: the Role rule reuses the ClusterRole type name with its own
\* severity.
analyzeRolesSharedType(issues, namespace, roles) ==
    issues \o
    Flatten([c \in 1..Len(roles) |->
        Flatten([r \in 1..Len(roles[c].rules) |->
            Flatten([v \in 1..Len(roles[c].rules[r].verbs) |->
                IF roles[c].rules[r].verbs[v] = "*"
                THEN << SecurityIssue("WildcardVerb", "Medium",
                                      <<namespace, "/", roles[c].name>>,
                                      <<"Role '", roles[c].name, "' in namespace '",
                                        namespace, "' uses wildcard verb '*'">>,
                                      "Replace wildcard verbs with specific actions") >>
                ELSE <<>>])])])

analyzeRoles(issues, namespace, roles) ==
    issues \o
    Flatten([c \in 1..Len(roles) |->
        Flatten([r \in 1..Len(roles[c].rules) |->
            Flatten([v \in 1..Len(roles[c].rules[r].verbs) |->
                IF roles[c].rules[r].verbs[v] = "*"
                THEN << SecurityIssue("WildcardVerbInRole", "Medium",
                                      <<namespace, "/", roles[c].name>>,
                                      <<"Role '", roles[c].name, "' in namespace '",
                                        namespace, "' uses wildcard verb '*'">>,
                                      "Replace wildcard verbs with specific actions") >>
                ELSE <<>>])])])

\* Mutation: the role reference is examined for the first binding only.
analyzeClusterRoleBindingsFirstOnly(issues, bindings) ==
    issues \o
    Flatten([b \in 1..Len(bindings) |->
        (IF b = 1 /\ bindings[b].roleRef = "cluster-admin"
         THEN << SecurityIssue("ClusterAdminBinding", "Critical", <<bindings[b].name>>,
                               <<"ClusterRoleBinding '", bindings[b].name,
                                 "' grants cluster-admin privileges">>,
                               "Review cluster-admin bindings and use least privilege") >>
         ELSE <<>>)
        \o
        Flatten([s \in 1..Len(bindings[b].subjects) |->
            IF bindings[b].subjects[s].kind = "ServiceAccount"
               /\ Contains(bindings[b].subjects[s].name, Chars_default)
            THEN << SecurityIssue("DefaultServiceAccountBinding", "High",
                                  <<bindings[b].name>>,
                                  <<"ClusterRoleBinding '", bindings[b].name,
                                    "' binds to default service account">>,
                                  "Avoid binding cluster roles to default service accounts") >>
            ELSE <<>>])])

analyzeClusterRoleBindings(issues, bindings) ==
    issues \o
    Flatten([b \in 1..Len(bindings) |->
        (IF bindings[b].roleRef = "cluster-admin"
         THEN << SecurityIssue("ClusterAdminBinding", "Critical", <<bindings[b].name>>,
                               <<"ClusterRoleBinding '", bindings[b].name,
                                 "' grants cluster-admin privileges">>,
                               "Review cluster-admin bindings and use least privilege") >>
         ELSE <<>>)
        \o
        Flatten([s \in 1..Len(bindings[b].subjects) |->
            IF bindings[b].subjects[s].kind = "ServiceAccount"
               /\ Contains(bindings[b].subjects[s].name, Chars_default)
            THEN << SecurityIssue("DefaultServiceAccountBinding", "High",
                                  <<bindings[b].name>>,
                                  <<"ClusterRoleBinding '", bindings[b].name,
                                    "' binds to default service account">>,
                                  "Avoid binding cluster roles to default service accounts") >>
            ELSE <<>>])])

analyzeRoleBindings(issues, namespace, bindings) ==
    issues \o
    Flatten([b \in 1..Len(bindings) |->
        IF Contains(bindings[b].roleRef, Chars_admin)
        THEN << SecurityIssue("AdminRoleBinding", "Medium",
                              <<namespace, "/", bindings[b].name>>,
                              <<"RoleBinding '", bindings[b].name, "' in namespace '",
                                namespace, "' uses admin role">>,
                              "Review admin role usage and apply least privilege") >>
        ELSE <<>>])

analyzeServiceAccounts(issues, serviceAccounts) ==
    issues \o
    Flatten([a \in 1..Len(serviceAccounts) |->
        IF Len(serviceAccounts[a].secrets) = 0
        THEN << SecurityIssue("ServiceAccountWithoutSecrets", "Low",
                              <<serviceAccounts[a].name>>,
                              <<"ServiceAccount '", serviceAccounts[a].name,
                                "' has no explicitly defined secrets">>,
                              "Consider defining explicit secrets for service accounts") >>
        ELSE <<>>])

\* the counting loop of calculateRiskLevel
SeverityCount(issues, severity) ==
    Cardinality({i \in 1..Len(issues) : issues[i].Severity = severity})

\* Mutation: the High test comes before the Critical test.
calculateRiskLevelHighFirst(issues) ==
    IF SeverityCount(issues, "High") > 0 THEN "High"
    ELSE IF SeverityCount(issues, "Critical") > 0 THEN "Critical"
    ELSE IF SeverityCount(issues, "Medium") > 0 THEN "Medium"
    ELSE "Low"

\* Mutation: High needs more than one issue.
calculateRiskLevelThreshold(issues) ==
    IF SeverityCount(issues, "Critical") > 0 THEN "Critical"
    ELSE IF SeverityCount(issues, "High") > 1 THEN "High"
    ELSE IF SeverityCount(issues, "Medium") > 0 THEN "Medium"
    ELSE "Low"

\* Mutation: the Medium test is >= 0 instead of > 0.
calculateRiskLevelMediumOffByOne(issues) ==
    IF SeverityCount(issues, "Critical") > 0 THEN "Critical"
    ELSE IF SeverityCount(issues, "High") > 0 THEN "High"
    ELSE IF SeverityCount(issues, "Medium") >= 0 THEN "Medium"
    ELSE "Low"

calculateRiskLevel(issues) ==
    IF SeverityCount(issues, "Critical") > 0 THEN "Critical"
    ELSE IF SeverityCount(issues, "High") > 0 THEN "High"
    ELSE IF SeverityCount(issues, "Medium") > 0 THEN "Medium"
    ELSE "Low"

\* Mutation: the recommendation is appended inside the loop when the
\* flag of its category turns true, so the order follows the issues.
generateRecommendationsFirstSeen(issues) ==
    LET FlagOf(type) ==
            CASE type \in {"WildcardVerb", "WildcardResource", "WildcardVerbInRole"} -> 1
              [] type = "ClusterAdminBinding" -> 2
              [] type \in {"DangerousSecretPermission", "PodExecPermission"} -> 3
              [] OTHER -> 0
        texts ==
            <<"Replace all wildcard permissions with specific verbs and resources",
              "Review and minimize cluster-admin bindings - use least privilege principles",
              "Restrict dangerous permissions (secrets, pod exec) to trusted principals only">>
        recommendations ==
            Flatten([i \in 1..Len(issues) |->
                IF /\ FlagOf(issues[i].Type) # 0
                   /\ \A j \in 1..(i - 1) : FlagOf(issues[j].Type) # FlagOf(issues[i].Type)
                THEN <<texts[FlagOf(issues[i].Type)]>>
                ELSE <<>>])
    IN IF Len(recommendations) = 0
       THEN <<"RBAC configuration appears secure - maintain current security practices">>
       ELSE recommendations

\* Mutation: the recommendation is appended inside the loop, once per
\* issue of the category.
generateRecommendationsPerIssue(issues) ==
    LET recommendations ==
            Flatten([i \in 1..Len(issues) |->
                CASE issues[i].Type \in {"WildcardVerb", "WildcardResource",
                                         "WildcardVerbInRole"} ->
                        <<"Replace all wildcard permissions with specific verbs and resources">>
                  [] issues[i].Type = "ClusterAdminBinding" ->
                        <<"Review and minimize cluster-admin bindings - use least privilege principles">>
                  [] issues[i].Type \in {"DangerousSecretPermission", "PodExecPermission"} ->
                        <<"Restrict dangerous permissions (secrets, pod exec) to trusted principals only">>
                  [] OTHER -> <<>>])
    IN IF Len(recommendations) = 0
       THEN <<"RBAC configuration appears secure - maintain current security practices">>
       ELSE recommendations

generateRecommendations(issues) ==
    LET hasWildcard ==
            HasIssueType(issues, {"WildcardVerb", "WildcardResource", "WildcardVerbInRole"})
        hasClusterAdmin == HasIssueType(issues, {"ClusterAdminBinding"})
        hasDangerousPermissions ==
            HasIssueType(issues, {"DangerousSecretPermission", "PodExecPermission"})
        recommendations ==
            (IF hasWildcard
             THEN <<"Replace all wildcard permissions with specific verbs and resources">>
             ELSE <<>>)
            \o (IF hasClusterAdmin
                THEN <<"Review and minimize cluster-admin bindings - use least privilege principles">>
                ELSE <<>>)
            \o (IF hasDangerousPermissions
                THEN <<"Restrict dangerous permissions (secrets, pod exec) to trusted principals only">>
                ELSE <<>>)
    IN IF Len(recommendations) = 0
       THEN <<"RBAC configuration appears secure - maintain current security practices">>
       ELSE recommendations

\* the five List calls of AnalyzeNamespaceRBAC in statement order, each with
\* the prefix of the error it returns
RBACListings ==
    << [kind |-> "ClusterRoles", what |-> "failed to list cluster roles: "],
       [kind |-> "Roles", what |-> "failed to list roles: "],
       [kind |-> "ClusterRoleBindings", what |-> "failed to list cluster role bindings: "],
       [kind |-> "RoleBindings", what |-> "failed to list role bindings: "],
       [kind |-> "ServiceAccounts", what |-> "failed to list service accounts: "] >>

\* Mutation: a failed listing is skipped instead of returned.
RECURSIVE CollectRBACSkipsFailures(_, _, _)
CollectRBACSkipsFailures(snap, faults, i) ==
    IF i > Len(RBACListings) THEN [err |-> Nil, listed |-> <<>>]
    ELSE LET rest == CollectRBACSkipsFailures(snap, faults, i + 1) IN
         [err |-> rest.err, listed |-> <<RBACListings[i].kind>> \o rest.listed]

\* the listing statements from the i-th on: each lists its kind and
\* returns at once when the call fails
RECURSIVE CollectRBAC(_, _, _)
CollectRBAC(snap, faults, i) ==
    IF i > Len(RBACListings) THEN [err |-> Nil, listed |-> <<>>]
    ELSE LET l == List(snap, faults, RBACListings[i].kind) IN
         IF l.err # Nil
         THEN [err |-> <<RBACListings[i].what>> \o l.err,
               listed |-> <<RBACListings[i].kind>>]
         ELSE LET rest == CollectRBAC(snap, faults, i + 1) IN
              [err |-> rest.err, listed |-> <<RBACListings[i].kind>> \o rest.listed]

\* AnalyzeNamespaceRBAC from "Analyze security issues" on
RBACEvaluate(snap, namespace) ==
    LET issues ==
            analyzeServiceAccounts(
                analyzeRoleBindings(
                    analyzeClusterRoleBindings(
                        analyzeRoles(
                            analyzeClusterRoles(<<>>, snap.ClusterRoles),
                            namespace, snap.Roles),
                        snap.ClusterRoleBindings),
                    namespace, snap.RoleBindings),
                snap.ServiceAccounts)
    IN [Namespace |-> namespace,
        ClusterRoles |-> Len(snap.ClusterRoles),
        Roles |-> Len(snap.Roles),
        ClusterRoleBindings |-> Len(snap.ClusterRoleBindings),
        RoleBindings |-> Len(snap.RoleBindings),
        ServiceAccounts |-> Len(snap.ServiceAccounts),
        SecurityIssues |-> issues,
        Recommendations |-> generateRecommendations(issues),
        RiskLevel |-> calculateRiskLevel(issues)]

\* AnalyzeNamespaceRBAC: the values it returns and the List calls it made
AnalyzeNamespaceRBACResult(snap, faults, namespace) ==
    LET c == CollectRBAC(snap, faults, 1) IN
    IF c.err # Nil
    THEN [report |-> Nil, err |-> c.err, listed |-> c.listed]
    ELSE [report |-> Ptr(RBACEvaluate(snap, namespace)), err |-> Nil, listed |-> c.listed]

\* a cluster holding RBAC objects; any of the analyser's List calls may fail
RBACInit ==
    /\ \E clusterRoles \in ClusterRoleListings, roles \in RoleListings,
          clusterRoleBindings \in ClusterRoleBindingListings,
          roleBindings \in RoleBindingListings,
          serviceAccounts \in ServiceAccountListings :
          snapshot = [EmptySnapshot EXCEPT !.ClusterRoles = clusterRoles,
                                           !.Roles = roles,
                                           !.ClusterRoleBindings = clusterRoleBindings,
                                           !.RoleBindings = roleBindings,
                                           !.ServiceAccounts = serviceAccounts]
    /\ listFaults \in SUBSET RBACKinds
    /\ scanOut = NotRun
    /\ rbacOut = NotRun
    /\ podOut = PodNotRun

AnalyzeNamespaceRBAC(namespace) ==
    LET o == AnalyzeNamespaceRBACResult(snapshot, listFaults, namespace) IN
    /\ rbacOut' = [done |-> TRUE, rerun |-> rbacOut.done, report |-> o.report,
                   err |-> o.err, listed |-> o.listed,
                   failed |-> FailedKinds(o.listed, listFaults)]
    /\ UNCHANGED <<snapshot, listFaults, scanOut, podOut, autoVars, scoreVars, fixVars>>

----------------------------------------------------------------------------
(* SecurityAnalyzer (per pod): risk score *)

PodSecurityIssue(level, title, description, remediation) ==
    [Level |-> level, Title |-> title, Description |-> description,
     Remediation |-> remediation]

SecurityWarning(level, title, description) ==
    [Level |-> level, Title |-> title, Description |-> description]

\* the switch over issue.Level
IssueDeduction(level) ==
    CASE level = "Critical" -> 30
      [] level = "High" -> 20
      [] level = "Medium" -> 10
      [] level = "Low" -> 5
      [] OTHER -> 0

\* Mutation: warnings are charged like issues.
WarningDeductionAsIssue(level) == IssueDeduction(level)

\* the switch over warning.Level
WarningDeduction(level) ==
    CASE level = "High" -> 10
      [] level = "Medium" -> 5
      [] level = "Low" -> 2
      [] OTHER -> 0

\* score after the issue loop has handled the first n issues
RECURSIVE ScoreAfterIssues(_, _)
ScoreAfterIssues(issues, n) ==
    IF n = 0 THEN 100
    ELSE ScoreAfterIssues(issues, n - 1) - IssueDeduction(issues[n].Level)

\* score after the warning loop has handled the first n warnings
RECURSIVE ScoreAfterWarnings(_, _, _)
ScoreAfterWarnings(start, warnings, n) ==
    IF n = 0 THEN start
    ELSE ScoreAfterWarnings(start, warnings, n - 1) - WarningDeduction(warnings[n].Level)

\* calculateRiskScore: the report with Analysis filled in and the
\* score-based recommendations appended
calculateRiskScore(report) ==
    LET raw == ScoreAfterWarnings(ScoreAfterIssues(report.Issues, Len(report.Issues)),
                                  report.Warnings, Len(report.Warnings))
        score == IF raw < 0 THEN 0 ELSE raw
        analysis ==
            IF score >= 80
            THEN [Status |-> "Secure", RiskLevel |-> "Low", Score |-> score]
            ELSE IF score >= 60
            THEN [Status |-> "Needs Improvement", RiskLevel |-> "Medium", Score |-> score]
            ELSE IF score >= 40
            THEN [Status |-> "Vulnerable", RiskLevel |-> "High", Score |-> score]
            ELSE [Status |-> "Highly Vulnerable", RiskLevel |-> "Critical", Score |-> score]
    IN [report EXCEPT
          !.Analysis = analysis,
          !.Recommendations =
              IF score < 80
              THEN report.Recommendations
                   \o <<"Implement security context with runAsNonRoot and readOnlyRootFilesystem",
                        "Use seccomp profiles and disable privilege escalation">>
              ELSE report.Recommendations]

----------------------------------------------------------------------------
(* SecurityAnalyzer (per pod): the analysis *)

\* isDangerousCapability of package diagnostics: its own list, which holds
\* CAP_ prefixed names only
isDangerousCapabilityDiagnostics(cap) ==
    cap \in {"CAP_SYS_ADMIN", "CAP_NET_RAW", "CAP_SYS_MODULE", "CAP_SYS_PTRACE"}

\* the pod-level checks
analyzeSecurityContext(report, pod) ==
    IF pod.securityContext = Nil
    THEN [report EXCEPT !.Issues = @ \o
            << PodSecurityIssue("High", <<"No Pod Security Context">>,
                                "Pod is running without any security context",
                                "Add securityContext with runAsNonRoot and seccompProfile") >>]
    ELSE LET sc == pod.securityContext[1] IN
         [report EXCEPT
            !.Issues = @ \o
                (IF sc.runAsNonRoot = Nil \/ ~sc.runAsNonRoot[1]
                 THEN << PodSecurityIssue("High", <<"Running as Root">>,
                                          "Pod may be running as root user",
                                          "Set runAsNonRoot: true in securityContext") >>
                 ELSE <<>>),
            !.Warnings = @ \o
                (IF sc.seccompProfile = Nil \/ sc.seccompProfile[1] # "RuntimeDefault"
                 THEN << SecurityWarning("Medium", <<"No Seccomp Profile">>,
                                         "Pod is not using runtime default seccomp profile") >>
                 ELSE <<>>)]

\* the capability loop of container i
AnalyzeCapabilities(i, caps) ==
    Flatten([c \in 1..Len(caps) |->
        IF isDangerousCapabilityDiagnostics(caps[c])
        THEN << PodSecurityIssue("High",
                                 <<"Container ", i, ": Dangerous Capability ", caps[c]>>,
                                 "Container has dangerous capability added",
                                 "Remove unnecessary capabilities") >>
        ELSE <<>>])

\* the issues one round of the container loop appends; i counts from 0
ContainerIssues(i, container) ==
    IF container.securityContext = Nil
    THEN << PodSecurityIssue("High", <<"Container ", i, ": No Security Context">>,
                             "Container is running without security context",
                             "Add securityContext with readOnlyRootFilesystem and allowPrivilegeEscalation: false") >>
    ELSE LET sc == container.securityContext[1] IN
         (IF sc.allowPrivilegeEscalation = Nil \/ sc.allowPrivilegeEscalation[1]
          THEN << PodSecurityIssue("High",
                                   <<"Container ", i, ": Privilege Escalation Allowed">>,
                                   "Container can escalate privileges",
                                   "Set allowPrivilegeEscalation: false") >>
          ELSE <<>>)
         \o
         (IF sc.privileged # Nil /\ sc.privileged[1]
          THEN << PodSecurityIssue("Critical", <<"Container ", i, ": Privileged Mode">>,
                                   "Container is running in privileged mode",
                                   "Avoid running containers in privileged mode") >>
          ELSE <<>>)
         \o
         (IF sc.capabilities # Nil
          THEN AnalyzeCapabilities(i, sc.capabilities[1].add)
          ELSE <<>>)

\* the warnings one round of the container loop appends
ContainerWarnings(i, container) ==
    IF container.securityContext = Nil THEN <<>>
    ELSE LET sc == container.securityContext[1] IN
         IF sc.readOnlyRootFilesystem = Nil \/ ~sc.readOnlyRootFilesystem[1]
         THEN << SecurityWarning("Medium",
                                 <<"Container ", i, ": Writable Root Filesystem">>,
                                 "Container has writable root filesystem") >>
         ELSE <<>>

analyzeContainerSecurity(report, pod) ==
    [report EXCEPT
       !.Issues = @ \o Flatten([k \in 1..Len(pod.containers) |->
                                   ContainerIssues(k - 1, pod.containers[k])]),
       !.Warnings = @ \o Flatten([k \in 1..Len(pod.containers) |->
                                     ContainerWarnings(k - 1, pod.containers[k])])]

\* CoreV1().Pods(namespace).Get: the pod of that name, or an error
GetPod(snap, faults, podName) ==
    LET found == {k \in 1..Len(snap.Pods) : snap.Pods[k].name = podName} IN
    IF "Pods" \in faults THEN [err |-> <<"get of pod failed">>, pod |-> Nil]
    ELSE IF found = {}
    THEN [err |-> <<"pods \"", podName, "\" not found">>, pod |-> Nil]
    ELSE [err |-> Nil,
          pod |-> Ptr(snap.Pods[CHOOSE k \in found : \A j \in found : k <= j])]

\* AnalyzePodSecurity: the values it returns
AnalyzePodSecurityResult(snap, faults, namespace, podName) ==
    LET got == GetPod(snap, faults, podName) IN
    IF got.err # Nil
    THEN [report |-> Nil, err |-> <<"failed to get pod ", podName, ": ">> \o got.err]
    ELSE LET pod == got.pod[1]
             report == [PodName |-> pod.name, Namespace |-> namespace,
                        Analysis |-> [Status |-> "", RiskLevel |-> "", Score |-> 0],
                        Issues |-> <<>>, Warnings |-> <<>>, Recommendations |-> <<>>]
         IN [report |-> Ptr(calculateRiskScore(
                               analyzeContainerSecurity(
                                   analyzeSecurityContext(report, pod), pod))),
             err |-> Nil]

\* pod names asked for: two the snapshots list and one they do not
AnalysedPodNames == {"node-agent", "batch", "ghost"}

\* kinds whose listing comes and goes between calls
UnsteadyKinds == {"Pods", "Services", "NetworkPolicies", "Roles", "ServiceAccounts"}

AnalyzePodSecurity(podName) ==
    LET o == AnalyzePodSecurityResult(snapshot, listFaults, ScanNamespaceName, podName) IN
    /\ podOut' = [done |-> TRUE, rerun |-> podOut.done /\ podOut.podName = podName,
                  podName |-> podName, report |-> o.report, err |-> o.err,
                  failed |-> {"Pods"} \cap listFaults]
    /\ UNCHANGED <<snapshot, listFaults, scanOut, rbacOut, autoVars, scoreVars, fixVars>>

\* the outcome of the List and Get calls of one kind changes between calls
ListingOutcomeChanges(kind) ==
    /\ listFaults' = IF kind \in listFaults THEN listFaults \ {kind}
                     ELSE listFaults \cup {kind}
    /\ UNCHANGED <<snapshot, scanOut, rbacOut, podOut, autoVars, scoreVars, fixVars>>

\* a namespace with pods, services and RBAC objects but no network policy
BusySnapshot ==
    [Pods |-> <<MixedPod, PrivilegedPod>>,
     Services |-> <<ExternalIPService, LoadBalancerService>>,
     NetworkPolicies |-> <<>>,
     ClusterRoles |-> <<SecretsClusterRole, WildcardClusterRole>>,
     Roles |-> <<WildcardRole>>,
     ClusterRoleBindings |-> <<ClusterAdminBinding, DefaultAccountBinding>>,
     RoleBindings |-> <<AdminRoleBinding>>,
     ServiceAccounts |-> <<PlainServiceAccount>>]

\* a populated namespace with every listing answering
RerunInit ==
    /\ snapshot = BusySnapshot
    /\ listFaults = {}
    /\ scanOut = NotRun
    /\ rbacOut = NotRun
    /\ podOut = PodNotRun

\* a namespace as the scanner or as the RBAC analyser meets it, the
\* network policy listing answering or not
AnalysisInit ==
    /\ \/ \E pods \in PodListings, services \in ServiceListings,
             policies \in NetworkPolicyListings :
             snapshot = [EmptySnapshot EXCEPT !.Pods = pods, !.Services = services,
                                              !.NetworkPolicies = policies]
       \/ \E clusterRoles \in ClusterRoleListings, roles \in RoleListings,
             clusterRoleBindings \in ClusterRoleBindingListings,
             roleBindings \in RoleBindingListings,
             serviceAccounts \in ServiceAccountListings :
             snapshot = [EmptySnapshot EXCEPT !.ClusterRoles = clusterRoles,
                                              !.Roles = roles,
                                              !.ClusterRoleBindings = clusterRoleBindings,
                                              !.RoleBindings = roleBindings,
                                              !.ServiceAccounts = serviceAccounts]
    /\ listFaults \in {{}, {"NetworkPolicies"}}
    /\ scanOut = NotRun
    /\ rbacOut = NotRun
    /\ podOut = PodNotRun

----------------------------------------------------------------------------
(* Risk scorers applied to issue lists *)

MaxPrefix == 3
MaxRepeat == 12
MaxWarnings == 2

Severities == {"Critical", "High", "Medium", "Low"}

\* one issue of each severity, as the RBAC and scan evaluators build them
IssueOfSeverity(severity) ==
    CASE severity = "Critical" ->
            SecurityIssue("ClusterAdminBinding", "Critical", <<"root-binding">>,
                          <<"ClusterRoleBinding '", "root-binding",
                            "' grants cluster-admin privileges">>,
                          "Review cluster-admin bindings and use least privilege")
      [] severity = "High" ->
            SecurityIssue("PrivilegedContainer", "High", <<"node-agent", "/", "agent">>,
                          <<"Container is running in privileged mode">>,
                          "Avoid running containers in privileged mode")
      [] severity = "Medium" ->
            SecurityIssue("NoNetworkPolicies", "Medium", <<ScanNamespaceName>>,
                          <<"Namespace has no network policies defined">>,
                          "Implement network policies for network segmentation")
      [] severity = "Low" ->
            SecurityIssue("LoadBalancerService", "Low", <<"lb">>,
                          <<"Service uses LoadBalancer type">>,
                          "Consider using Ingress instead of LoadBalancer for external access")

\* one per-pod issue of each level
PodIssueOfLevel(level) ==
    CASE level = "Critical" ->
            PodSecurityIssue("Critical", <<"Container ", 0, ": Privileged Mode">>,
                             "Container is running in privileged mode",
                             "Avoid running containers in privileged mode")
      [] level = "High" ->
            PodSecurityIssue("High", <<"No Pod Security Context">>,
                             "Pod is running without any security context",
                             "Add securityContext with runAsNonRoot and seccompProfile")
      [] OTHER ->
            PodSecurityIssue(level, <<"Container ", 0, ": Finding">>,
                             "Container finding", "Review the container")

PodWarningOfLevel(level) ==
    IF level = "Medium"
    THEN SecurityWarning("Medium", <<"No Seccomp Profile">>,
                         "Pod is not using runtime default seccomp profile")
    ELSE SecurityWarning(level, <<"Container ", 0, ": Finding">>, "Container finding")

\* sequences over S of length at most n
SeqsUpTo(S, n) == UNION {[1..k -> S] : k \in 0..n}

Repeat(x, k) == [i \in 1..k |-> x]

\* severity lists handed to the scorers: a free prefix followed by a run
\* of one severity
SeverityLists ==
    {p \o Repeat(s, k) : p \in SeqsUpTo(Severities, MaxPrefix),
                         s \in Severities, k \in 0..MaxRepeat}

SecurityReportOf(levels, warningLevels) ==
    [PodName |-> "web", Namespace |-> ScanNamespaceName,
     Analysis |-> [Status |-> "", RiskLevel |-> "", Score |-> 0],
     Issues |-> [i \in 1..Len(levels) |-> PodIssueOfLevel(levels[i])],
     Warnings |-> [i \in 1..Len(warningLevels) |-> PodWarningOfLevel(warningLevels[i])],
     Recommendations |-> <<>>]

\* issue types handed to the recommendation generators: for RBAC one type
\* of each category flag and one of none, for the scan two types of one
\* flag, one of another and one of none
RecommendTypes(policy) ==
    IF policy = "rbac"
    THEN {"WildcardVerb", "ClusterAdminBinding", "PodExecPermission",
          "ServiceAccountWithoutSecrets"}
    ELSE {"PrivilegedContainer", "RunAsRoot", "RunAsRootAllowed", "LoadBalancerService"}

MaxListed == 3

\* an issue of the type as the evaluators build it
IssueOfType(type) ==
    SecurityIssue(type,
                  CASE type = "ClusterAdminBinding" -> "Critical"
                    [] type \in {"WildcardVerb", "PrivilegedContainer"} -> "High"
                    [] type \in {"ServiceAccountWithoutSecrets", "LoadBalancerService"} -> "Low"
                    [] OTHER -> "Medium",
                  <<"item">>, <<"finding of type ", type>>, "Review the finding")

IssuesOfTypes(types) == [i \in 1..Len(types) |-> IssueOfType(types[i])]

NotRecommended == [done |-> FALSE, first |-> <<>>, second |-> <<>>]

\* no recommendation generator called
RecommendIdle ==
    /\ recIn = [policy |-> "none", first |-> <<>>, second |-> <<>>]
    /\ recOut = NotRecommended

\* two issue lists of one analyser
RecommendInit ==
    /\ \E policy \in {"rbac", "scan"} :
          \E first, second \in SeqsUpTo(RecommendTypes(policy), MaxListed) :
             recIn = [policy |-> policy, first |-> IssuesOfTypes(first),
                      second |-> IssuesOfTypes(second)]
    /\ recOut = NotRecommended

\* generateRecommendations called on each of the two lists
RecommendRBAC ==
    /\ recIn.policy = "rbac"
    /\ ~recOut.done
    /\ recOut' = [done |-> TRUE, first |-> generateRecommendations(recIn.first),
                  second |-> generateRecommendations(recIn.second)]
    /\ UNCHANGED <<recIn, scoreIn, scoreOut, autoVars, analysisVars, fixVars>>

\* generateSecurityRecommendations called on each of the two lists
RecommendScan ==
    /\ recIn.policy = "scan"
    /\ ~recOut.done
    /\ recOut' = [done |-> TRUE, first |-> generateSecurityRecommendations(recIn.first),
                  second |-> generateSecurityRecommendations(recIn.second)]
    /\ UNCHANGED <<recIn, scoreIn, scoreOut, autoVars, analysisVars, fixVars>>

NotScored ==
    [policy |-> "none", Score |-> 0, RiskLevel |-> "", Status |-> "",
     Recommendations |-> <<>>]

\* no scoring in progress
ScoreIdle ==
    /\ scoreIn = [issues |-> <<>>, pod |-> SecurityReportOf(<<>>, <<>>)]
    /\ scoreOut = NotScored
    /\ RecommendIdle

\* an issue list for the namespace scorers and a pod report with its
\* issues and warnings but no analysis yet
ScoreInit ==
    /\ \E sevs \in SeverityLists, warningLevels \in SeqsUpTo(Severities, MaxWarnings) :
          /\ (warningLevels = <<>> \/ Len(sevs) <= MaxPrefix)
          /\ scoreIn = [issues |-> [i \in 1..Len(sevs) |-> IssueOfSeverity(sevs[i])],
                        pod |-> SecurityReportOf(sevs, warningLevels)]
    /\ scoreOut = NotScored
    /\ RecommendIdle

\* ScanNamespace, "Calculate compliance score and risk level"
ScoreScan ==
    /\ scoreOut.policy = "none"
    /\ LET score == calculateComplianceScore(scoreIn.issues) IN
       scoreOut' = [policy |-> "scan", Score |-> score,
                    RiskLevel |-> calculateRiskLevelFromScore(score), Status |-> "",
                    Recommendations |-> generateSecurityRecommendations(scoreIn.issues)]
    /\ UNCHANGED <<scoreIn, recIn, recOut, autoVars, analysisVars, fixVars>>

\* AnalyzeNamespaceRBAC, "Determine overall risk level"
ScoreRBAC ==
    /\ scoreOut.policy = "none"
    /\ scoreOut' = [policy |-> "rbac", Score |-> 0,
                    RiskLevel |-> calculateRiskLevel(scoreIn.issues), Status |-> "",
                    Recommendations |-> generateRecommendations(scoreIn.issues)]
    /\ UNCHANGED <<scoreIn, recIn, recOut, autoVars, analysisVars, fixVars>>

\* AnalyzePodSecurity, the calculateRiskScore call
ScorePod ==
    /\ scoreOut.policy = "none"
    /\ LET report == calculateRiskScore(scoreIn.pod) IN
       scoreOut' = [policy |-> "pod", Score |-> report.Analysis.Score,
                    RiskLevel |-> report.Analysis.RiskLevel,
                    Status |-> report.Analysis.Status,
                    Recommendations |-> report.Recommendations]
    /\ UNCHANGED <<scoreIn, recIn, recOut, autoVars, analysisVars, fixVars>>

----------------------------------------------------------------------------
(* FixEngine *)

MaxIssues == 4

\* the YAML patches, one line per element
GenerateResourceLimitsPatch ==
    << "", "spec:", "  template:", "    spec:", "      containers:",
       "      - name: \"*\"", "        resources:", "          limits:",
       "            cpu: \"500m\"", "            memory: \"512Mi\"",
       "          requests:", "            cpu: \"100m\"",
       "            memory: \"128Mi\"", "" >>

GenerateProbePatch ==
    << "", "spec:", "  template:", "    spec:", "      containers:",
       "      - name: \"*\"", "        livenessProbe:", "          httpGet:",
       "            path: /health", "            port: 8080",
       "          initialDelaySeconds: 30", "          periodSeconds: 10",
       "        readinessProbe:", "          httpGet:", "            path: /ready",
       "            port: 8080", "          initialDelaySeconds: 5",
       "          periodSeconds: 5", "" >>

GenerateSecurityContextPatch ==
    << "", "spec:", "  template:", "    spec:", "      securityContext:",
       "        runAsNonRoot: true", "        runAsUser: 1000",
       "        seccompProfile:", "          type: RuntimeDefault",
       "      containers:", "      - name: \"*\"", "        securityContext:",
       "          allowPrivilegeEscalation: false",
       "          readOnlyRootFilesystem: true", "          capabilities:",
       "            drop:", "            - ALL", "" >>

Fix(type, description, action, yamlPatch, riskLevel, backupPlan) ==
    [Type |-> type, Description |-> description, Action |-> action,
     YAMLPatch |-> yamlPatch, RiskLevel |-> riskLevel, BackupPlan |-> backupPlan]

\* Mutation: an issue outside the table gets a generic fix instead of nil.
generateFixForIssueDefault(issue, resourceType, resourceName, namespace) ==
    CASE issue = "Missing resource limits" ->
            Ptr(Fix("Resource Configuration",
                    "Add default resource limits to prevent resource exhaustion",
                    "Patch resource configuration", GenerateResourceLimitsPatch, "Low",
                    "Rollback to previous resource configuration"))
      [] issue = "High restart count" ->
            Ptr(Fix("Probe Configuration",
                    "Add liveness and readiness probes to improve container health checks",
                    "Add health check probes", GenerateProbePatch, "Medium",
                    "Remove probes and restart containers"))
      [] issue = "Security context missing" ->
            Ptr(Fix("Security Hardening",
                    "Add security context to run as non-root user",
                    "Update security context", GenerateSecurityContextPatch, "Low",
                    "Revert security context changes"))
      [] OTHER ->
            Ptr(Fix("Manual Review", "Review the issue manually", "None", <<>>, "Low",
                    "None"))

\* the switch over the issue string; nil when no case matches
generateFixForIssue(issue, resourceType, resourceName, namespace) ==
    CASE issue = "Missing resource limits" ->
            Ptr(Fix("Resource Configuration",
                    "Add default resource limits to prevent resource exhaustion",
                    "Patch resource configuration", GenerateResourceLimitsPatch, "Low",
                    "Rollback to previous resource configuration"))
      [] issue = "High restart count" ->
            Ptr(Fix("Probe Configuration",
                    "Add liveness and readiness probes to improve container health checks",
                    "Add health check probes", GenerateProbePatch, "Medium",
                    "Remove probes and restart containers"))
      [] issue = "Security context missing" ->
            Ptr(Fix("Security Hardening",
                    "Add security context to run as non-root user",
                    "Update security context", GenerateSecurityContextPatch, "Low",
                    "Revert security context changes"))
      [] OTHER -> Nil

\* the preview text, one line per element, each line a tuple of its pieces
generatePreview(plan) ==
    << <<"Fix Plan for ", plan.ResourceType, "/", plan.ResourceName, " in namespace ",
         plan.Namespace>>,
       <<"=================================================================">>,
       <<"">> >>
    \o Flatten([i \in 1..Len(plan.Fixes) |->
          << <<"Fix ", i, ": ", plan.Fixes[i].Type>>,
             <<"Description: ", plan.Fixes[i].Description>>,
             <<"Action: ", plan.Fixes[i].Action>>,
             <<"Risk Level: ", plan.Fixes[i].RiskLevel>>,
             <<"YAML Patch:", plan.Fixes[i].YAMLPatch>>,
             <<"Backup Plan: ", plan.Fixes[i].BackupPlan>>,
             <<"---">> >>])
    \o << <<"Overall Confidence: ", plan.Confidence, "%">>,
          <<"Risks to Consider:">> >>
    \o [i \in 1..Len(plan.Risks) |-> <<"- ", plan.Risks[i]>>]

\* Mutation: the incremental warning is added from three fixes on.
assessRisksFromThree(plan) ==
    Flatten([i \in 1..Len(plan.Fixes) |->
        CASE plan.Fixes[i].RiskLevel = "High" ->
                << <<"High risk fix: ", plan.Fixes[i].Type, " - ",
                     plan.Fixes[i].Description>> >>
          [] plan.Fixes[i].RiskLevel = "Medium" ->
                << <<"Medium risk fix: ", plan.Fixes[i].Type,
                     " - may cause temporary downtime">> >>
          [] OTHER -> <<>>])
    \o (IF Len(plan.Fixes) >= 3
        THEN << <<"Multiple changes being applied at once - consider applying fixes incrementally">> >>
        ELSE <<>>)

\* one warning per High or Medium fix, then the incremental warning
assessRisks(plan) ==
    Flatten([i \in 1..Len(plan.Fixes) |->
        CASE plan.Fixes[i].RiskLevel = "High" ->
                << <<"High risk fix: ", plan.Fixes[i].Type, " - ",
                     plan.Fixes[i].Description>> >>
          [] plan.Fixes[i].RiskLevel = "Medium" ->
                << <<"Medium risk fix: ", plan.Fixes[i].Type,
                     " - may cause temporary downtime">> >>
          [] OTHER -> <<>>])
    \o (IF Len(plan.Fixes) > 3
        THEN << <<"Multiple changes being applied at once - consider applying fixes incrementally">> >>
        ELSE <<>>)

\* Mutation: the Confidence field is left at its zero value.
NewFixPlanNoConfidence(resourceType, resourceName, namespace) ==
    [ResourceType |-> resourceType, ResourceName |-> resourceName,
     Namespace |-> namespace, Fixes |-> <<>>, Risks |-> <<>>, Confidence |-> 0,
     Preview |-> <<>>]

\* the FixPlan literal GenerateFix starts from
NewFixPlan(resourceType, resourceName, namespace) ==
    [ResourceType |-> resourceType, ResourceName |-> resourceName,
     Namespace |-> namespace, Fixes |-> <<>>, Risks |-> <<>>, Confidence |-> 75,
     Preview |-> <<>>]

\* the loop of GenerateFix: append the fix of every issue that has one
CollectFixes(issues, resourceType, resourceName, namespace) ==
    Flatten([i \in 1..Len(issues) |->
        generateFixForIssue(issues[i], resourceType, resourceName, namespace)])

\* GenerateFix: the preview is generated before the risks are assessed
GenerateFixResult(resourceType, resourceName, namespace, issues) ==
    LET plan0 == NewFixPlan(resourceType, resourceName, namespace)
        plan1 == [plan0 EXCEPT !.Fixes =
                     CollectFixes(issues, resourceType, resourceName, namespace)]
        plan2 == [plan1 EXCEPT !.Preview = generatePreview(plan1)]
        plan3 == [plan2 EXCEPT !.Risks = assessRisks(plan2)]
    IN [plan |-> Ptr(plan3), err |-> Nil]

\* issue names handed to GenerateFix: the three of the table, one of them
\* in another spelling, and a name outside the table
FixIssueNames ==
    {"Missing resource limits", "High restart count", "Security context missing",
     "missing resource limits", "CrashLoopBackOff"}

FixResourceTypes == {"pod", "deployment"}

NotGenerated == [done |-> FALSE, plan |-> Nil, err |-> Nil]

\* no fix generation in progress
FixIdle ==
    /\ fixIn = [resourceType |-> "", resourceName |-> "", namespace |-> "",
                issues |-> <<>>]
    /\ fixOut = NotGenerated

FixInit ==
    /\ \E resourceType \in FixResourceTypes, issues \in SeqsUpTo(FixIssueNames, MaxIssues) :
          fixIn = [resourceType |-> resourceType, resourceName |-> "web",
                   namespace |-> "default", issues |-> issues]
    /\ fixOut = NotGenerated

GenerateFix ==
    /\ ~fixOut.done
    /\ LET o == GenerateFixResult(fixIn.resourceType, fixIn.resourceName,
                                  fixIn.namespace, fixIn.issues) IN
       fixOut' = [done |-> TRUE, plan |-> o.plan, err |-> o.err]
    /\ UNCHANGED <<fixIn, autoVars, analysisVars, scoreVars>>

----------------------------------------------------------------------------
(* Specifications *)

\* the remediation engine
Init == AutoInit /\ AnalysisIdle /\ ScoreIdle /\ FixIdle

Next == AutoNext

Spec == Init /\ [][Next]_vars

\* the security scanner against a namespace
InitScan == AutoInit /\ ScanInit /\ ScoreIdle /\ FixIdle

NextScan == ScanNamespace(ScanNamespaceName)

SpecScan == InitScan /\ [][NextScan]_vars

\* the RBAC analyser against a cluster
InitRBAC == AutoInit /\ RBACInit /\ ScoreIdle /\ FixIdle

NextRBAC == AnalyzeNamespaceRBAC(ScanNamespaceName)

SpecRBAC == InitRBAC /\ [][NextRBAC]_vars

\* the three scoring policies against issue lists
InitScore == AutoInit /\ AnalysisIdle /\ ScoreInit /\ FixIdle

NextScore == ScoreScan \/ ScoreRBAC \/ ScorePod

SpecScore == InitScore /\ [][NextScore]_vars

\* direct calls of PodRestartRemediator.CanFix
InitCanFix == AutoInit /\ AnalysisIdle /\ ScoreIdle /\ FixIdle

NextCanFix == \E t \in ProbeIssueTypes : CanFixProbe(t)

SpecCanFix == InitCanFix /\ [][NextCanFix]_vars

\* direct calls of CanFix and of GetSupportedIssues
InitSupported == AutoInit /\ AnalysisIdle /\ ScoreIdle /\ FixIdle

NextSupported ==
    \/ \E t \in ProbeIssueTypes : CanFixProbe(t)
    \/ GetSupportedIssuesProbe

SpecSupported == InitSupported /\ [][NextSupported]_vars

\* the fix engine against lists of issue names
InitFix == AutoInit /\ AnalysisIdle /\ ScoreIdle /\ FixInit

NextFix == GenerateFix

SpecFix == InitFix /\ [][NextFix]_vars

\* the two recommendation generators against pairs of issue lists
InitRecommend ==
    /\ AutoInit /\ AnalysisIdle /\ FixIdle
    /\ scoreIn = [issues |-> <<>>, pod |-> SecurityReportOf(<<>>, <<>>)]
    /\ scoreOut = NotScored
    /\ RecommendInit

NextRecommend == RecommendRBAC \/ RecommendScan

SpecRecommend == InitRecommend /\ [][NextRecommend]_vars

\* the three analysers against one namespace
InitConcurrent == ConcurrentInit /\ AnalysisIdle /\ ScoreIdle /\ FixIdle

NextConcurrent == ConcurrentNext

SpecConcurrent == InitConcurrent /\ [][NextConcurrent]_vars

InitRegistry == AutoInit /\ AnalysisIdle /\ ScoreIdle /\ FixIdle

NextRegistry == RegistryNext

SpecRegistry == InitRegistry /\ [][NextRegistry]_vars

InitAnalysis == AutoInit /\ AnalysisInit /\ ScoreIdle /\ FixIdle

NextAnalysis ==
    \/ ScanNamespace(ScanNamespaceName)
    \/ AnalyzeNamespaceRBAC(ScanNamespaceName)
    \/ \E podName \in AnalysedPodNames : AnalyzePodSecurity(podName)

SpecAnalysis == InitAnalysis /\ [][NextAnalysis]_vars

\* the three analysers called again and again while listings come and go
InitRerun == AutoInit /\ RerunInit /\ ScoreIdle /\ FixIdle

NextRerun ==
    \/ ScanNamespace(ScanNamespaceName)
    \/ AnalyzeNamespaceRBAC(ScanNamespaceName)
    \/ \E podName \in {"batch", "ghost"} : AnalyzePodSecurity(podName)
    \/ \E kind \in UnsteadyKinds : ListingOutcomeChanges(kind)

SpecRerun == InitRerun /\ [][NextRerun]_vars

----------------------------------------------------------------------------
(* Properties of the remediation dispatcher *)

\* registry positions whose remediator declares the dispatched issue type
MatchingPositions(call) ==
    {i \in 1..Len(call.registry) :
        \E j \in 1..Len(call.registry[i].supportedIssues) :
            call.registry[i].supportedIssues[j] = call.issueType}

LowestPosition(S) == CHOOSE i \in S : \A j \in S : i <= j

\* C1: a dispatch invokes Remediate on the matching remediator with the
\* lowest registration index and returns the outcome of that remediator's
\* action; with R1 registered before R2 and both matching, R1 is selected.
C1_FirstMatchSelected ==
    (lastCall.called /\ MatchingPositions(lastCall) # {}) =>
        /\ lastCall.invoked = << LowestPosition(MatchingPositions(lastCall)) >>
        /\ lastCall.result[1].Action = "restart"
        /\ lastCall.result[1].Resource = lastCall.resource
        /\ Len(lastCall.deleteCalls) = 1
        /\ lastCall.err = lastCall.deleteCalls[1].err

C1_Witness ==
    /\ lastCall.called
    /\ lastCall.registry = <<R1, R2>>
    /\ lastCall.issueType = "CrashLoopBackOff"
    /\ lastCall.invoked = <<1>>

\* C2: one AutoRemediate call invokes Remediate on at most one remediator,
\* at most once, and issues at most one pod delete, also when the selected
\* remediator's action fails and a later remediator matches too.
C2_AtMostOneRemediate ==
    lastCall.called =>
        /\ Len(lastCall.invoked) <= 1
        /\ Len(lastCall.deleteCalls) <= 1
        /\ Cardinality(lastCall.podsBefore \ lastCall.podsAfter) <= 1

C2_Witness ==
    /\ lastCall.called
    /\ Cardinality(MatchingPositions(lastCall)) >= 2
    /\ lastCall.err # "nil"
    /\ Len(lastCall.invoked) = 1
    /\ Len(lastCall.deleteCalls) = 1

\* C3: when no registered remediator supports the issue type (the registry
\* may be empty), the call returns a result with Success=false and
\* Action="none" and a nil error, invokes no remediator and deletes nothing.
C3_NoMatchResult ==
    (lastCall.called /\ MatchingPositions(lastCall) = {}) =>
        /\ lastCall.result # <<>>
        /\ lastCall.result[1].Success = FALSE
        /\ lastCall.result[1].Action = "none"
        /\ lastCall.err = "nil"
        /\ lastCall.invoked = <<>>
        /\ lastCall.deleteCalls = <<>>
        /\ lastCall.podsAfter = lastCall.podsBefore

C3_Witness ==
    /\ lastCall.called
    /\ Len(lastCall.registry) > 0
    /\ MatchingPositions(lastCall) = {}
    /\ lastCall.result[1].Action = "none"

\* C4: the remediation result has Success=true and a nil error exactly when
\* the pod delete succeeded (the pod existed and is gone); a failed delete
\* yields a non-nil error and a Success=false result whose message carries
\* the failure, and the dispatcher returns both as the remediator made them.
C4_ResultMatchesDelete ==
    (lastCall.called /\ lastCall.invoked # <<>>) =>
        LET d == lastCall.deleteCalls[1]
            pod == <<lastCall.namespace, lastCall.resource>> IN
        /\ d.name = lastCall.resource /\ d.namespace = lastCall.namespace
        /\ (lastCall.result[1].Success /\ lastCall.err = "nil") <=> (d.err = "nil")
        /\ d.err = "nil" => (pod \in lastCall.podsBefore /\ pod \notin lastCall.podsAfter)
        /\ d.err # "nil" =>
              /\ lastCall.err = d.err
              /\ lastCall.result # <<>>
              /\ lastCall.result[1].Success = FALSE
              /\ lastCall.result[1].Message = <<"Failed to delete pod: ", d.err>>
              /\ lastCall.podsAfter = lastCall.podsBefore

C4_Witness ==
    /\ lastCall.called
    /\ lastCall.invoked # <<>>
    /\ lastCall.err = "NotFound"
    /\ lastCall.result[1].Success = FALSE

----------------------------------------------------------------------------
(* Properties of the listing phase of the analysers *)

\* listings the call attempted that failed
FailedListings(out) ==
    {i \in 1..Len(out.listed) : out.listed[i] \in listFaults}

RBACClaimedOrder ==
    <<"ClusterRoles", "Roles", "ClusterRoleBindings", "RoleBindings", "ServiceAccounts">>

FailingPositions == {i \in 1..Len(RBACClaimedOrder) : RBACClaimedOrder[i] \in listFaults}

\* C6: AnalyzeNamespaceRBAC lists ClusterRoles, Roles, ClusterRoleBindings,
\* RoleBindings, ServiceAccounts in that order; at the first failing listing
\* it returns a nil report and an error and attempts no later listing; a
\* returned report implies that all five listings succeeded.
C6_RBACListingAbort ==
    rbacOut.done =>
        /\ FailingPositions = {} =>
              /\ rbacOut.listed = RBACClaimedOrder
              /\ rbacOut.report # Nil
              /\ rbacOut.err = Nil
        /\ FailingPositions # {} =>
              /\ rbacOut.listed =
                    SubSeq(RBACClaimedOrder, 1, LowestPosition(FailingPositions))
              /\ rbacOut.report = Nil
              /\ rbacOut.err # Nil
        /\ rbacOut.report # Nil => listFaults = {}

C6_Witness ==
    /\ rbacOut.done
    /\ listFaults = {"ClusterRoleBindings", "ServiceAccounts"}
    /\ snapshot.ClusterRoles # <<>>
    /\ rbacOut.listed = <<"ClusterRoles", "Roles", "ClusterRoleBindings">>
    /\ rbacOut.report = Nil

----------------------------------------------------------------------------
(* Properties of the scoring policies *)

NumberOf(items, field, value) ==
    Cardinality({i \in 1..Len(items) : items[i][field] = value})

FloorZero(n) == IF n > 0 THEN n ELSE 0

ScanPenalty(issues) ==
    10 * NumberOf(issues, "Severity", "Critical") + 7 * NumberOf(issues, "Severity", "High")
    + 4 * NumberOf(issues, "Severity", "Medium") + NumberOf(issues, "Severity", "Low")

\* C7: the security-scan score is max(0, 100 - sum of weights) with
\* Critical 10, High 7, Medium 4, Low 1; the risk level is Low from 90,
\* Medium from 70, High from 50, else Critical; the score lies in [0,100].
C7_ComplianceScore ==
    scoreOut.policy = "scan" =>
        /\ scoreOut.Score = FloorZero(100 - ScanPenalty(scoreIn.issues))
        /\ scoreOut.Score \in 0..100
        /\ scoreOut.RiskLevel =
              (IF scoreOut.Score >= 90 THEN "Low"
               ELSE IF scoreOut.Score >= 70 THEN "Medium"
               ELSE IF scoreOut.Score >= 50 THEN "High"
               ELSE "Critical")

C7_Witness ==
    /\ scoreOut.policy = "scan"
    /\ ScanPenalty(scoreIn.issues) > 100
    /\ scoreOut.Score = 0
    /\ scoreOut.RiskLevel = "Critical"

HasSeverity(issues, severity) == \E i \in 1..Len(issues) : issues[i].Severity = severity

\* C8: the RBAC risk level is Critical if a Critical issue is present, else
\* High if a High one is, else Medium if a Medium one is, else Low: it is
\* decided by which severities occur, not by how often or in which order.
C8_RBACRiskLevel ==
    scoreOut.policy = "rbac" =>
        scoreOut.RiskLevel =
            (IF HasSeverity(scoreIn.issues, "Critical") THEN "Critical"
             ELSE IF HasSeverity(scoreIn.issues, "High") THEN "High"
             ELSE IF HasSeverity(scoreIn.issues, "Medium") THEN "Medium"
             ELSE "Low")

C8_Witness ==
    /\ scoreOut.policy = "rbac"
    /\ NumberOf(scoreIn.issues, "Severity", "High") = 1
    /\ NumberOf(scoreIn.issues, "Severity", "Medium") >= 2
    /\ scoreIn.issues[1].Severity = "Low"
    /\ scoreOut.RiskLevel = "High"

PodPenalty(report) ==
    30 * NumberOf(report.Issues, "Level", "Critical")
    + 20 * NumberOf(report.Issues, "Level", "High")
    + 10 * NumberOf(report.Issues, "Level", "Medium")
    + 5 * NumberOf(report.Issues, "Level", "Low")
    + 10 * NumberOf(report.Warnings, "Level", "High")
    + 5 * NumberOf(report.Warnings, "Level", "Medium")
    + 2 * NumberOf(report.Warnings, "Level", "Low")

\* C9: the per-pod score is max(0, 100 - issue weights {Critical 30, High
\* 20, Medium 10, Low 5} - warning weights {High 10, Medium 5, Low 2});
\* (RiskLevel, Status) is (Low, Secure) from 80, (Medium, Needs
\* Improvement) from 60, (High, Vulnerable) from 40, else (Critical, Highly
\* Vulnerable); the score lies in [0,100].
C9_PodRiskScore ==
    scoreOut.policy = "pod" =>
        /\ scoreOut.Score = FloorZero(100 - PodPenalty(scoreIn.pod))
        /\ scoreOut.Score \in 0..100
        /\ <<scoreOut.RiskLevel, scoreOut.Status>> =
              (IF scoreOut.Score >= 80 THEN <<"Low", "Secure">>
               ELSE IF scoreOut.Score >= 60 THEN <<"Medium", "Needs Improvement">>
               ELSE IF scoreOut.Score >= 40 THEN <<"High", "Vulnerable">>
               ELSE <<"Critical", "Highly Vulnerable">>)

C9_Witness ==
    /\ scoreOut.policy = "pod"
    /\ scoreIn.pod.Issues # <<>>
    /\ NumberOf(scoreIn.pod.Warnings, "Level", "High") = 1
    /\ NumberOf(scoreIn.pod.Warnings, "Level", "Low") = 1
    /\ scoreOut.Score = 68
    /\ scoreOut.Status = "Needs Improvement"

\* C10: with no issues (and, per pod, no warnings) the RBAC risk level is
\* Low, the security-scan score is 100 with risk Low, and the per-pod score
\* is 100 with status Secure.
C10_ZeroIssues ==
    /\ (scoreOut.policy = "rbac" /\ scoreIn.issues = <<>>) => scoreOut.RiskLevel = "Low"
    /\ (scoreOut.policy = "scan" /\ scoreIn.issues = <<>>) =>
          (scoreOut.Score = 100 /\ scoreOut.RiskLevel = "Low")
    /\ (scoreOut.policy = "pod" /\ scoreIn.pod.Issues = <<>>
        /\ scoreIn.pod.Warnings = <<>>) =>
          (scoreOut.Score = 100 /\ scoreOut.Status = "Secure")

C10_Witness ==
    /\ scoreOut.policy = "pod"
    /\ scoreIn.pod.Issues = <<>>
    /\ scoreIn.pod.Warnings = <<>>
    /\ scoreIn.issues = <<>>
    /\ scoreOut.Score = 100

\* C11: an issue list with exactly one Critical issue, whatever else it
\* holds, has RBAC risk level Critical and a security-scan score of at
\* most 90.
C11_OneCritical ==
    NumberOf(scoreIn.issues, "Severity", "Critical") = 1 =>
        /\ scoreOut.policy = "rbac" => scoreOut.RiskLevel = "Critical"
        /\ scoreOut.policy = "scan" => scoreOut.Score <= 90

C11_Witness ==
    /\ scoreOut.policy = "rbac"
    /\ NumberOf(scoreIn.issues, "Severity", "Critical") = 1
    /\ Len(scoreIn.issues) >= 4
    /\ scoreIn.issues[1].Severity = "High"
    /\ scoreIn.issues[Len(scoreIn.issues)].Severity = "Low"
    /\ scoreOut.RiskLevel = "Critical"

----------------------------------------------------------------------------
(* Properties of the pod restart remediator and the fix engine *)

\* C12: PodRestartRemediator.CanFix answers true exactly for the six names
\* CrashLoopBackOff, ImagePullBackOff, ErrImagePull, RunContainerError,
\* PodStuckTerminating and HighRestartCount, compared exactly and with
\* case, and false for every other string such as UnknownIssue.
C12_CanFixExact ==
    \A q \in canFixLog :
        q.answer <=> q.issueType \in {"CrashLoopBackOff", "ImagePullBackOff",
                                      "ErrImagePull", "RunContainerError",
                                      "PodStuckTerminating", "HighRestartCount"}

C12_Witness ==
    /\ [issueType |-> "HighRestartCount", answer |-> TRUE] \in canFixLog
    /\ [issueType |-> "ImagePullBackOff", answer |-> TRUE] \in canFixLog
    /\ [issueType |-> "crashloopbackoff", answer |-> FALSE] \in canFixLog
    /\ [issueType |-> "UnknownIssue", answer |-> FALSE] \in canFixLog

KnownFixIssues ==
    {"Missing resource limits", "High restart count", "Security context missing"}

IsKnownFixIssue(issue) == issue \in KnownFixIssues

FixTypeOf(issue) ==
    CASE issue = "Missing resource limits" -> "Resource Configuration"
      [] issue = "High restart count" -> "Probe Configuration"
      [] issue = "Security context missing" -> "Security Hardening"

\* C13: GenerateFix returns a nil error and a plan whose Fixes hold one
\* fix for each input element that equals one of the three known issue
\* strings, in input order; other elements add no fix and no error.
C13_FixesFollowInput ==
    fixOut.done =>
        /\ fixOut.err = Nil
        /\ fixOut.plan # Nil
        /\ LET recognised == SelectSeq(fixIn.issues, IsKnownFixIssue)
               fixes == fixOut.plan[1].Fixes
           IN /\ Len(fixes) = Len(recognised)
              /\ \A i \in 1..Len(fixes) : fixes[i].Type = FixTypeOf(recognised[i])

C13_Witness ==
    /\ fixOut.done
    /\ Len(fixIn.issues) = 4
    /\ fixIn.issues[1] = "High restart count"
    /\ fixIn.issues[2] \notin KnownFixIssues
    /\ fixIn.issues[3] = "Missing resource limits"
    /\ fixIn.issues[4] = "High restart count"
    /\ Len(fixOut.plan[1].Fixes) = 3
    /\ fixOut.err = Nil

\* C14: every plan GenerateFix returns has Confidence 75, whatever fixes
\* it holds, a plan without fixes included.
C14_Confidence ==
    fixOut.done => (fixOut.plan # Nil /\ fixOut.plan[1].Confidence = 75)

C14_Witness ==
    /\ fixOut.done
    /\ fixIn.issues # <<>>
    /\ fixOut.plan[1].Fixes = <<>>
    /\ fixOut.plan[1].Confidence = 75

IncrementalWarning ==
    <<"Multiple changes being applied at once - consider applying fixes incrementally">>

IsRiskyFix(fix) == fix.RiskLevel \in {"High", "Medium"}

\* C15: plan.Risks holds one warning per fix of risk level High or Medium,
\* in fix order, followed by the single incremental warning exactly when
\* the plan holds more than 3 fixes; the three known issues give 3 fixes
\* and no incremental warning.
C15_Risks ==
    fixOut.done =>
        LET plan == fixOut.plan[1]
            risky == SelectSeq(plan.Fixes, IsRiskyFix)
            n == Len(risky)
        IN /\ Len(plan.Risks) = n + (IF Len(plan.Fixes) > 3 THEN 1 ELSE 0)
           /\ \A i \in 1..n :
                 /\ plan.Risks[i][1] =
                       (IF risky[i].RiskLevel = "High" THEN "High risk fix: "
                        ELSE "Medium risk fix: ")
                 /\ plan.Risks[i][2] = risky[i].Type
           /\ Len(plan.Fixes) > 3 => plan.Risks[n + 1] = IncrementalWarning
           /\ fixIn.issues = <<"Missing resource limits", "High restart count",
                               "Security context missing">> =>
                 (Len(plan.Fixes) = 3 /\ Len(plan.Risks) = 1)

C15_Witness ==
    /\ fixOut.done
    /\ Len(fixOut.plan[1].Fixes) = 4
    /\ fixOut.plan[1].Fixes[2].RiskLevel = "Medium"
    /\ Len(fixOut.plan[1].Risks) = 2
    /\ fixOut.plan[1].Risks[2] = IncrementalWarning

----------------------------------------------------------------------------
(* Properties of the rule evaluators *)

\* the issue lists of the reports returned so far
RBACIssues == IF rbacOut.report = Nil THEN <<>> ELSE rbacOut.report[1].SecurityIssues

ScanIssues == IF scanOut.report = Nil THEN <<>> ELSE scanOut.report[1].SecurityIssues

\* position of the category an RBAC issue type belongs to
RBACCategoryOf(type) ==
    CASE type \in {"WildcardVerb", "WildcardResource", "DangerousSecretPermission",
                   "PodExecPermission"} -> 1
      [] type = "WildcardVerbInRole" -> 2
      [] type \in {"ClusterAdminBinding", "DefaultServiceAccountBinding"} -> 3
      [] type = "AdminRoleBinding" -> 4
      [] type = "ServiceAccountWithoutSecrets" -> 5

RBACCategoryKinds ==
    <<"ClusterRoles", "Roles", "ClusterRoleBindings", "RoleBindings", "ServiceAccounts">>

ScanCategoryOf(type) ==
    CASE type \in {"ServiceWithExternalIP", "LoadBalancerService"} -> 2
      [] type = "NoNetworkPolicies" -> 3
      [] OTHER -> 1

ScanCategoryKinds == <<"Pods", "Services">>

\* names is what remains of walking down listing, repeating items but
\* never going back
RECURSIVE FollowsListing(_, _)
FollowsListing(names, listing) ==
    IF names = <<>> THEN TRUE
    ELSE IF listing = <<>> THEN FALSE
    ELSE IF Head(names) = Head(listing) THEN FollowsListing(Tail(names), listing)
    ELSE FollowsListing(names, Tail(listing))

NamesOf(items) == [i \in 1..Len(items) |-> items[i].name]

\* the listed item an issue is about: the last piece of an RBAC resource,
\* the first piece of a scan resource
RBACItemsOfCategory(issues, c) ==
    LET InCategory(issue) == RBACCategoryOf(issue.Type) = c
        chosen == SelectSeq(issues, InCategory)
    IN [i \in 1..Len(chosen) |-> chosen[i].Resource[Len(chosen[i].Resource)]]

ScanItemsOfCategory(issues, c) ==
    LET InCategory(issue) == ScanCategoryOf(issue.Type) = c
        chosen == SelectSeq(issues, InCategory)
    IN [i \in 1..Len(chosen) |-> chosen[i].Resource[1]]

\* C16: in an RBAC report ClusterRole issues precede Role issues, then
\* ClusterRoleBinding, RoleBinding and ServiceAccount issues; in a scan
\* report Pod issues precede Service issues, which precede the
\* NetworkPolicy issue; within a category the issues follow the order in
\* which the items were listed.
C16_IssueOrder ==
    /\ \A i, j \in 1..Len(RBACIssues) :
          i < j => RBACCategoryOf(RBACIssues[i].Type) <= RBACCategoryOf(RBACIssues[j].Type)
    /\ \A c \in 1..Len(RBACCategoryKinds) :
          FollowsListing(RBACItemsOfCategory(RBACIssues, c),
                         NamesOf(snapshot[RBACCategoryKinds[c]]))
    /\ \A i, j \in 1..Len(ScanIssues) :
          i < j => ScanCategoryOf(ScanIssues[i].Type) <= ScanCategoryOf(ScanIssues[j].Type)
    /\ \A c \in 1..Len(ScanCategoryKinds) :
          FollowsListing(ScanItemsOfCategory(ScanIssues, c),
                         NamesOf(snapshot[ScanCategoryKinds[c]]))

C16_Witness ==
    /\ rbacOut.report # Nil
    /\ Len(snapshot.ClusterRoles) = 2
    /\ Len(snapshot.RoleBindings) = 3
    /\ {RBACCategoryOf(RBACIssues[i].Type) : i \in 1..Len(RBACIssues)} = 1..5
    /\ Len(RBACItemsOfCategory(RBACIssues, 1)) >= 3
    /\ Len(RBACItemsOfCategory(RBACIssues, 4)) = 2

RBACSeverityOf(type) ==
    CASE type \in {"WildcardVerb", "WildcardResource", "DangerousSecretPermission",
                   "DefaultServiceAccountBinding"} -> "High"
      [] type \in {"PodExecPermission", "WildcardVerbInRole", "AdminRoleBinding"} -> "Medium"
      [] type = "ClusterAdminBinding" -> "Critical"
      [] type = "ServiceAccountWithoutSecrets" -> "Low"
      [] OTHER -> "unlisted"

ScanSeverityOf(type) ==
    CASE type \in {"PrivilegedContainer", "DangerousCapability"} -> "High"
      [] type \in {"MissingPodSecurityContext", "RunAsRootAllowed",
                   "MissingContainerSecurityContext", "RunAsRoot",
                   "ServiceWithExternalIP", "NoNetworkPolicies"} -> "Medium"
      [] type \in {"MissingSeccompProfile", "WritableRootFilesystem",
                   "LoadBalancerService"} -> "Low"
      [] OTHER -> "unlisted"

\* C17: every issue of an RBAC or scan report has a severity among
\* Critical, High, Medium and Low, and within a path the severity is the
\* one its Type always has: ClusterAdminBinding Critical, WildcardVerb
\* High, WildcardVerbInRole Medium, ServiceAccountWithoutSecrets Low, and
\* so on for each type of the catalog.
C17_SeverityByType ==
    /\ \A i \in 1..Len(RBACIssues) :
          /\ RBACIssues[i].Severity \in {"Critical", "High", "Medium", "Low"}
          /\ RBACIssues[i].Severity = RBACSeverityOf(RBACIssues[i].Type)
    /\ \A i \in 1..Len(ScanIssues) :
          /\ ScanIssues[i].Severity \in {"Critical", "High", "Medium", "Low"}
          /\ ScanIssues[i].Severity = ScanSeverityOf(ScanIssues[i].Type)

C17_Witness ==
    /\ rbacOut.report # Nil
    /\ {"ClusterAdminBinding", "WildcardVerb", "WildcardVerbInRole",
         "ServiceAccountWithoutSecrets"}
          \subseteq {RBACIssues[i].Type : i \in 1..Len(RBACIssues)}
    /\ {RBACIssues[i].Severity : i \in 1..Len(RBACIssues)} =
          {"Critical", "High", "Medium", "Low"}

ClaimedDangerousCapabilities ==
    {"SYS_ADMIN", "SYS_PTRACE", "SYS_MODULE", "SYS_RAWIO", "NET_ADMIN", "NET_RAW",
     "IPC_LOCK", "DAC_READ_SEARCH",
     "CAP_SYS_ADMIN", "CAP_SYS_PTRACE", "CAP_SYS_MODULE", "CAP_SYS_RAWIO",
     "CAP_NET_ADMIN", "CAP_NET_RAW", "CAP_IPC_LOCK", "CAP_DAC_READ_SEARCH"}

\* the capabilities a container adds
AddedCapabilities(container) ==
    IF container.securityContext = Nil THEN <<>>
    ELSE IF container.securityContext[1].capabilities = Nil THEN <<>>
    ELSE container.securityContext[1].capabilities[1].add

\* the pod AnalyzePodSecurity reported on
AnalysedPod ==
    snapshot.Pods[CHOOSE k \in 1..Len(snapshot.Pods) :
                     /\ snapshot.Pods[k].name = podOut.podName
                     /\ \A j \in 1..(k - 1) : snapshot.Pods[j].name # podOut.podName]

\* C18: in the scan path and in the per-pod path alike, an added
\* capability gives a High dangerous-capability issue exactly when it is
\* one of SYS_ADMIN, SYS_PTRACE, SYS_MODULE, SYS_RAWIO, NET_ADMIN, NET_RAW,
\* IPC_LOCK, DAC_READ_SEARCH or one of these prefixed with CAP_.
C18_DangerousCapabilities ==
    /\ scanOut.report # Nil =>
          \A p \in 1..Len(snapshot.Pods) :
             \A k \in 1..Len(snapshot.Pods[p].containers) :
                LET container == snapshot.Pods[p].containers[k]
                    caps == AddedCapabilities(container)
                IN \A c \in 1..Len(caps) :
                      caps[c] \in ClaimedDangerousCapabilities <=>
                         \E i \in 1..Len(ScanIssues) :
                            /\ ScanIssues[i].Type = "DangerousCapability"
                            /\ ScanIssues[i].Severity = "High"
                            /\ ScanIssues[i].Resource =
                                  <<snapshot.Pods[p].name, "/", container.name>>
                            /\ ScanIssues[i].Description[2] = caps[c]
    /\ podOut.report # Nil =>
          \A k \in 1..Len(AnalysedPod.containers) :
             LET caps == AddedCapabilities(AnalysedPod.containers[k]) IN
             \A c \in 1..Len(caps) :
                caps[c] \in ClaimedDangerousCapabilities <=>
                   \E i \in 1..Len(podOut.report[1].Issues) :
                      /\ podOut.report[1].Issues[i].Level = "High"
                      /\ podOut.report[1].Issues[i].Title =
                            <<"Container ", k - 1, ": Dangerous Capability ", caps[c]>>

\* a call of an analyser that returned a report is followed by another
\* that returned one
BothReported(before, after) == before.report # Nil /\ after.report # Nil

RBACRecommendationOrder ==
    << [types |-> {"WildcardVerb", "WildcardResource", "WildcardVerbInRole"},
        text |-> "Replace all wildcard permissions with specific verbs and resources"],
       [types |-> {"ClusterAdminBinding"},
        text |-> "Review and minimize cluster-admin bindings - use least privilege principles"],
       [types |-> {"DangerousSecretPermission", "PodExecPermission"},
        text |-> "Restrict dangerous permissions (secrets, pod exec) to trusted principals only"] >>

ScanRecommendationOrder ==
    << [types |-> {"PrivilegedContainer"},
        text |-> "Eliminate all privileged containers - they pose significant security risks"],
       [types |-> {"RunAsRoot", "RunAsRootAllowed"},
        text |-> "Run containers as non-root users to minimize attack surface"],
       [types |-> {"MissingPodSecurityContext", "MissingContainerSecurityContext"},
        text |-> "Define security contexts for all pods and containers"] >>

\* the flags that are true of an issue list, as positions of order
TrueFlags(order, issues) ==
    {k \in 1..Len(order) : \E i \in 1..Len(issues) : issues[i].Type \in order[k].types}

\* recs holds the text of every true flag once, in the order of the
\* flags, or the one message good when no flag is true
RecommendationsFollow(recs, order, issues, good) ==
    LET flags == TrueFlags(order, issues) IN
    /\ Len(recs) \in 1..3
    /\ \A i, j \in 1..Len(recs) : i # j => recs[i] # recs[j]
    /\ IF flags = {} THEN recs = <<good>>
       ELSE /\ Len(recs) = Cardinality(flags)
            /\ \A k \in flags : \E i \in 1..Len(recs) : recs[i] = order[k].text
            /\ \A i, j \in 1..Len(recs) :
                  i < j => \E k, l \in flags :
                              k < l /\ recs[i] = order[k].text /\ recs[j] = order[l].text

\* C20: the RBAC and the scan recommendation generator emit one fixed
\* string per true category flag, in the order wildcard, cluster-admin,
\* dangerous permissions (RBAC) and privileged, root, missing security
\* context (scan), without duplicates; with every flag false they emit the
\* one good-posture message; the list has between 1 and 3 entries.
C20_Recommendations ==
    /\ rbacOut.report # Nil =>
          RecommendationsFollow(rbacOut.report[1].Recommendations,
                                RBACRecommendationOrder, RBACIssues,
                                "RBAC configuration appears secure - maintain current security practices")
    /\ scanOut.report # Nil =>
          RecommendationsFollow(scanOut.report[1].Recommendations,
                                ScanRecommendationOrder, ScanIssues,
                                "Security posture is good - maintain current security practices")

C20_Witness ==
    /\ rbacOut.report # Nil
    /\ TrueFlags(RBACRecommendationOrder, RBACIssues) = {1, 2, 3}
    /\ Len(rbacOut.report[1].Recommendations) = 3
    /\ Cardinality({i \in 1..Len(RBACIssues) :
                       RBACIssues[i].Type \in RBACRecommendationOrder[1].types}) >= 3
    /\ scanOut.report # Nil
    /\ scanOut.report[1].Recommendations =
          <<"Security posture is good - maintain current security practices">>

\* the two lists hold the same issues, in whatever order and number
SameIssues(first, second) ==
    {first[i] : i \in 1..Len(first)} = {second[i] : i \in 1..Len(second)}

RecommendationOrderOf(policy) ==
    IF policy = "rbac" THEN RBACRecommendationOrder ELSE ScanRecommendationOrder

\* C21: the recommendation list does not change when the issue list is
\* permuted or an issue in it is repeated: two issue lists that set the
\* same category flags give the same recommendation list, and so does the
\* same list handed in again.
C21_RecommendationsByFlags ==
    recOut.done =>
        /\ SameIssues(recIn.first, recIn.second) => recOut.first = recOut.second
        /\ TrueFlags(RecommendationOrderOf(recIn.policy), recIn.first)
              = TrueFlags(RecommendationOrderOf(recIn.policy), recIn.second)
           => recOut.first = recOut.second

C21_Witness ==
    /\ recOut.done
    /\ recIn.policy = "rbac"
    /\ Len(recIn.first) = 2 /\ Len(recIn.second) = 3
    /\ SameIssues(recIn.first, recIn.second)
    /\ recIn.first[1] = recIn.second[3]
    /\ recIn.first[1] # recIn.second[1]
    /\ recIn.first[1].Type = "ClusterAdminBinding"
    /\ recIn.first[2].Type = "WildcardVerb"
    /\ Len(recOut.first) = 2
    /\ recOut.first = recOut.second

----------------------------------------------------------------------------
(* Concurrent dispatch *)

\* what the call of caller c returns when it is the only call made
RunsAlone(c) ==
    AutoRemediateFrom(registered, 1, ManagedPods, calls[c].issueType, calls[c].resource,
                      calls[c].namespace, calls[c].fault, calls[c].dur)

\* C22: with registration finished, however concurrent AutoRemediate calls
\* for different resources interleave, the registry stays what it was, and
\* every finished call has selected the remediator and returned the result
\* and error it returns when it runs alone; once all have finished the
\* cluster has lost exactly the pods the calls delete alone.
C22_ConcurrentDispatch ==
    /\ remediators = registered
    /\ \A c \in DOMAIN calls :
          /\ calls[c].pc # "start" => calls[c].view = registered
          /\ calls[c].pc = "done" =>
                /\ calls[c].invoked = RunsAlone(c).invoked
                /\ calls[c].result = RunsAlone(c).result
                /\ calls[c].err = RunsAlone(c).err
    /\ (calls # <<>> /\ \A c \in DOMAIN calls : calls[c].pc = "done") =>
          \A p \in ManagedPods :
              p \in clusterPods <=> \A c \in DOMAIN calls : p \in RunsAlone(c).pods

C22_Witness ==
    /\ DOMAIN calls = Callers
    /\ \A c \in Callers : calls[c].pc = "done"
    /\ remediators = <<R1, R2>>
    /\ calls[1].invoked = <<2>> /\ calls[1].result[1].Success
    /\ calls[2].invoked = <<1>> /\ calls[2].result[1].Success
    /\ clusterPods = {}

----------------------------------------------------------------------------
(* Registry *)

\* C23: after any sequence of RegisterRemediator, AutoRemediate, SelfHeal
\* and PredictiveScale calls (and registrations of scalers and healers) the
\* remediator registry is exactly the sequence of remediators handed to
\* RegisterRemediator, in call order and with duplicates kept; the registry
\* a dispatch saw is an initial part of it.
C23_RegistryIsHistory ==
    /\ remediators = registered
    /\ lastCall.called =>
          /\ Len(lastCall.registry) <= Len(registered)
          /\ lastCall.registry = SubSeq(registered, 1, Len(lastCall.registry))

C23_Witness ==
    /\ registered = <<R2, R2>>
    /\ remediators = <<R2, R2>>
    /\ lastCall.called /\ lastCall.registry = <<R2>> /\ lastCall.invoked = <<1>>
    /\ auxCall.SelfHeal.called /\ auxCall.SelfHeal.invoked = <<1>>
    /\ auxCall.PredictiveScale.called /\ auxCall.PredictiveScale.invoked = <<>>

\* C24: when no remediator matches issue type t, the Message of the
\* returned result is "no remediation available for issue type <t>", with
\* <t> the dispatched issue type.
C24_NoMatchMessage ==
    (lastCall.called /\ MatchingPositions(lastCall) = {}) =>
        lastCall.result[1].Message =
            <<"no remediation available for issue type ", lastCall.issueType>>

----------------------------------------------------------------------------
(* Reports on single findings *)

\* C25: when the snapshot holds a ClusterRoleBinding whose role reference
\* is cluster-admin, the report AnalyzeNamespaceRBAC returns has a Critical
\* ClusterAdminBinding issue naming that binding, RiskLevel "Critical" and
\* the cluster-admin recommendation, whatever else the snapshot holds.
C25_ClusterAdminIsCritical ==
    (rbacOut.done /\ rbacOut.report # Nil) =>
        \A b \in 1..Len(snapshot.ClusterRoleBindings) :
            snapshot.ClusterRoleBindings[b].roleRef = "cluster-admin" =>
                LET report == rbacOut.report[1] IN
                /\ \E i \in 1..Len(report.SecurityIssues) :
                      /\ report.SecurityIssues[i].Type = "ClusterAdminBinding"
                      /\ report.SecurityIssues[i].Severity = "Critical"
                      /\ report.SecurityIssues[i].Resource =
                            <<snapshot.ClusterRoleBindings[b].name>>
                /\ report.RiskLevel = "Critical"
                /\ \E k \in 1..Len(report.Recommendations) :
                      report.Recommendations[k] =
                          "Review and minimize cluster-admin bindings - use least privilege principles"

C25_Witness ==
    /\ rbacOut.done /\ rbacOut.report # Nil
    /\ snapshot.ClusterRoleBindings = <<ViewBinding, ClusterAdminBinding>>
    /\ snapshot.ClusterRoles # <<>>
    /\ snapshot.RoleBindings # <<>>
    /\ snapshot.ServiceAccounts # <<>>
    /\ rbacOut.report[1].RiskLevel = "Critical"
    /\ Len(rbacOut.report[1].Recommendations) >= 2
    /\ Len(rbacOut.report[1].SecurityIssues) >= 4

\* positions of the scan issues raised for a container
ScanIssuesOf(pod, container) ==
    {i \in 1..Len(ScanIssues) : ScanIssues[i].Resource = <<pod.name, "/", container.name>>}

\* containers of the listing that carry these names
ContainersNamed(podName, containerName) ==
    {pk \in {<<p, k>> : p \in 1..Len(snapshot.Pods), k \in 1..3} :
        /\ pk[2] <= Len(snapshot.Pods[pk[1]].containers)
        /\ snapshot.Pods[pk[1]].name = podName
        /\ snapshot.Pods[pk[1]].containers[pk[2]].name = containerName}

\* what the container-level checks other than the capability check find in
\* a container that has a security context
ScanFindingsClaimed(container) ==
    LET sc == container.securityContext[1] IN
    (IF sc.privileged # Nil /\ sc.privileged[1] THEN {"PrivilegedContainer"} ELSE {})
    \cup (IF sc.runAsUser # Nil /\ sc.runAsUser[1] = 0 THEN {"RunAsRoot"} ELSE {})
    \cup (IF sc.readOnlyRootFilesystem = Nil \/ ~sc.readOnlyRootFilesystem[1]
          THEN {"WritableRootFilesystem"} ELSE {})

PodFindingsClaimed(container) ==
    LET sc == container.securityContext[1] IN
    (IF sc.allowPrivilegeEscalation = Nil \/ sc.allowPrivilegeEscalation[1]
     THEN {": Privilege Escalation Allowed"} ELSE {})
    \cup (IF sc.privileged # Nil /\ sc.privileged[1] THEN {": Privileged Mode"} ELSE {})
    \cup (IF sc.readOnlyRootFilesystem = Nil \/ ~sc.readOnlyRootFilesystem[1]
          THEN {": Writable Root Filesystem"} ELSE {})

\* positions of the per-pod findings raised for the container at index idx
FindingsOf(items, idx) ==
    {i \in 1..Len(items) : /\ Len(items[i].Title) >= 3
                           /\ items[i].Title[1] = "Container "
                           /\ items[i].Title[2] = idx}

\* C26: in the scan and in the per-pod analysis alike, a container without
\* a security context gets exactly one finding, the missing-security-context
\* issue, and none of the other container-level findings; the other
\* containers of the pod still get the findings their settings call for.
C26_MissingContextSkipsChecks ==
    /\ scanOut.report # Nil =>
          \A p \in 1..Len(snapshot.Pods) :
             LET pod == snapshot.Pods[p] IN
             (\E k \in 1..Len(pod.containers) : pod.containers[k].securityContext = Nil) =>
                \A k \in 1..Len(pod.containers) :
                   LET container == pod.containers[k]
                       found == ScanIssuesOf(pod, container)
                   IN IF container.securityContext = Nil
                      THEN /\ \A i \in found :
                                 ScanIssues[i].Type = "MissingContainerSecurityContext"
                           /\ Cardinality(found) =
                                 Cardinality(ContainersNamed(pod.name, container.name))
                      ELSE {ScanIssues[i].Type : i \in found} \ {"DangerousCapability"}
                              = ScanFindingsClaimed(container)
    /\ podOut.report # Nil =>
          LET pod == AnalysedPod
              report == podOut.report[1]
          IN (\E k \in 1..Len(pod.containers) : pod.containers[k].securityContext = Nil) =>
                \A k \in 1..Len(pod.containers) :
                   LET issues == FindingsOf(report.Issues, k - 1)
                       warnings == FindingsOf(report.Warnings, k - 1)
                   IN IF pod.containers[k].securityContext = Nil
                      THEN /\ warnings = {}
                           /\ Cardinality(issues) = 1
                           /\ \A i \in issues :
                                 report.Issues[i].Title[3] = ": No Security Context"
                      ELSE ({report.Issues[i].Title[3] : i \in issues}
                               \cup {report.Warnings[i].Title[3] : i \in warnings})
                              \ {": Dangerous Capability "}
                           = PodFindingsClaimed(pod.containers[k])

C26_Witness ==
    /\ scanOut.report # Nil /\ podOut.report # Nil
    /\ podOut.podName = "batch"
    /\ snapshot.Pods = <<BarePod, MixedPod, BarePod>>
    /\ \E i \in 1..Len(ScanIssues) :
          /\ ScanIssues[i].Type = "WritableRootFilesystem"
          /\ ScanIssues[i].Resource = <<"batch", "/", "probe">>
    /\ Cardinality(ScanIssuesOf(BarePod, BareContainer)) = 2
    /\ \E i \in 1..Len(podOut.report[1].Issues) :
          podOut.report[1].Issues[i].Title = <<"Container ", 0, ": No Security Context">>
    /\ \E i \in 1..Len(podOut.report[1].Issues) :
          podOut.report[1].Issues[i].Title = <<"Container ", 1, ": Privilege Escalation Allowed">>
    /\ \E i \in 1..Len(podOut.report[1].Warnings) :
          podOut.report[1].Warnings[i].Title = <<"Container ", 1, ": Writable Root Filesystem">>

\* C27: for PodRestartRemediator, CanFix(t) is true exactly when t is an
\* element of the list GetSupportedIssues returns, for every string t.
C27_CanFixAgreesWithList ==
    \A q \in canFixLog : \A list \in supportedLog :
        q.answer <=> \E i \in 1..Len(list) : list[i] = q.issueType

C27_Witness ==
    /\ supportedLog # {}
    /\ \A t \in ProbeIssueTypes : \E q \in canFixLog : q.issueType = t
    /\ \E q \in canFixLog : q.answer /\ q.issueType = "HighRestartCount"
    /\ \E q \in canFixLog : ~q.answer /\ q.issueType = "CRASHLOOPBACKOFF"

\* C28: in every report AnalyzeNamespaceRBAC returns, the recommendation
\* "RBAC configuration appears secure - maintain current security practices"
\* is present only when the RiskLevel is "Low".
C28_SecureOnlyWhenLow ==
    (rbacOut.done /\ rbacOut.report # Nil) =>
        ((\E k \in 1..Len(rbacOut.report[1].Recommendations) :
              rbacOut.report[1].Recommendations[k] =
                  "RBAC configuration appears secure - maintain current security practices")
         => rbacOut.report[1].RiskLevel = "Low")

\* number of issues of severity High or Critical
NumberOfSevere(issues) ==
    NumberOf(issues, "Severity", "High") + NumberOf(issues, "Severity", "Critical")

\* C29 as stated: in a report of ScanNamespace, an issue list with at least
\* one issue of severity High or Critical gives a RiskLevel other than "Low".
C29_SevereIssueNotLow ==
    (scoreOut.policy = "scan" /\ NumberOfSevere(scoreIn.issues) >= 1) =>
        scoreOut.RiskLevel # "Low"

\* C29 amended: an issue list with at least two issues of severity High or
\* Critical gives a RiskLevel other than "Low".
C29_TwoSevereIssuesNotLow ==
    (scoreOut.policy = "scan" /\ NumberOfSevere(scoreIn.issues) >= 2) =>
        scoreOut.RiskLevel # "Low"

C29_Witness ==
    /\ scoreOut.policy = "scan"
    /\ Len(scoreIn.issues) = 2
    /\ NumberOf(scoreIn.issues, "Severity", "High") = 2
    /\ scoreOut.Score = 86
    /\ scoreOut.RiskLevel = "Medium"

IsFixHeader(line) == Len(line) = 4 /\ line[1] = "Fix "

\* the lines of a preview that follow its "Risks to Consider:" line
RiskLinesOf(preview) ==
    LET at == CHOOSE i \in 1..Len(preview) : preview[i] = <<"Risks to Consider:">> IN
    SubSeq(preview, at + 1, Len(preview))

\* C30: the Preview of the plan GenerateFix returns agrees with the plan as
\* returned: its "Risks to Consider" section lists every entry of
\* plan.Risks, and its fix entries list every entry of plan.Fixes in order.
C30_PreviewMatchesPlan ==
    fixOut.done =>
        LET plan == fixOut.plan[1] IN
        /\ RiskLinesOf(plan.Preview) = [i \in 1..Len(plan.Risks) |-> <<"- ", plan.Risks[i]>>]
        /\ SelectSeq(plan.Preview, IsFixHeader) =
              [i \in 1..Len(plan.Fixes) |-> <<"Fix ", i, ": ", plan.Fixes[i].Type>>]

====
